---- MODULE Spec2Model ----
(***************************************************************************)
(* Salesforce CRUD services: the OAuth2 token cache (SalesforceAuth) with  *)
(* its refresh lock, the HTTP transport with its 401 refresh-and-retry,    *)
(* the Bulk API 2.0 ingest submission (perform_bulk_operation) behind its  *)
(* request handler, the fetch of a bulk job's results, the retrying        *)
(* single-record operations with batch_insert_data, authenticate and its   *)
(* credentials, the CSV text written and read back character by character, *)
(* and the handler of a batch of records.                                  *)
(*                                                                         *)
(* Time is counted in abstract ticks: a token is valid for two ticks and   *)
(* is due for refresh one tick before it expires.                          *)
(***************************************************************************)
EXTENDS Integers, Sequences, FiniteSets, TLC

\* ------------------------------------------------------------------ bounds
NumProcs == 2      \* concurrent callers of the token cache
MaxCalls == 3      \* calls the callers make in total
MaxTime == 1       \* clock ticks
NumRecords == 3    \* records given to batch_insert_data
BATCH_SIZE == 2    \* records per chunk of batch_insert_data, scaled down
MaxBatch == 2      \* records given to convert_records_to_csv_string

\* ------------------------------------------------------- program constants
AssumedValidity == 2     \* assumed_validity_seconds, 2 hours
RefreshBufferShared == 1 \* SALESFORCE_TOKEN_REFRESH_BUFFER, 300 s
ExpiresInDefault == 2    \* expires_in_seconds default, 3600 s
FallbackHour == 2        \* timedelta(hours=1)
RefreshBufferMetric == 1 \* TOKEN_REFRESH_BUFFER, 60 s

NoToken == 0     \* _access_token is None
NoUrl == 0       \* _instance_url is None
TheUrl == 1      \* the instance_url the token endpoint answers with
NoExpiry == -1   \* _token_expiry is None
NoIssued == -1   \* _issued_at is None

Procs == 1..NumProcs
Variants == {"shared", "metric"}

VARIABLES
  variant,        \* which SalesforceAuth is running: shared/src/salesforce/auth.py or salesforce_metric.py
  access_token,   \* SalesforceAuth._access_token
  instance_url,   \* SalesforceAuth._instance_url
  token_expiry,   \* SalesforceAuth._token_expiry
  issued_at,      \* SalesforceAuth._issued_at (shared only)
  now,            \* datetime.utcnow()
  token_lock,     \* asyncio.Lock: the caller holding it, 0 when free
  lock_waiters,   \* asyncio.Lock._waiters, FIFO
  pc,             \* where each caller is: idle, waiting, locked, inflight
  hist,           \* per caller: the call in progress or last finished
  calls,          \* calls made so far
  authCalls,      \* authenticate() network calls started
  authFailed,     \* some authenticate() call has raised
  tokSeq,         \* tokens the token endpoint has issued
  t_pc,           \* where the transport call is: idle, base, bulkurl, headers, send, refresh, done
  t_req,          \* the request it carries: rest, create, close, abort
  is_bulk_api,    \* _request's is_bulk_api argument
  attempt,        \* the retry loop's attempt
  headers,        \* the token in the Authorization header
  t_res,          \* how the transport call ended: ok, or the exception raised
  log,            \* HTTP requests sent and 401 refreshes made, in order
  b_variant,      \* which perform_bulk_operation is running: src or shared
  records,        \* payload.records, each record as its set of field names
  b_pc,           \* where perform_bulk_operation is
  job_id,         \* job_id is set
  b_err,          \* the exception on its way to the caller
  b_res,          \* how perform_bulk_operation ended: ok, or the exception raised
  jobState,       \* the ingest job at Salesforce: none, Open, UploadComplete, Aborted
  abortCalls,     \* update_bulk_job_state(job_id, "Aborted") calls made
  operation,      \* the submission's operation: insert, upsert
  external_id_field,  \* an external_id_field was given
  is_query_job,   \* get_bulk_job_status_and_results: the job is a query job
  results_data,   \* the result partitions fetched so far
  partition,      \* the ingest result partition being fetched, or "none"
  s_op,           \* the record operation run: batch, insert, update, delete
  s_pc,           \* its position: idle, start, check, call, done
  num_records,    \* len(records): the input records are 1 .. num_records
  max_attempts,   \* the max_attempts argument
  attempt_no,     \* the loop variable attempt of the retry loop
  chunk_start,    \* the loop variable i of batch_insert_data
  rec,            \* the record being processed
  sf_log,         \* the API calls and sleeps made, in order
  successful_records,  \* batch_insert_data's list of inserted records
  failed_records,      \* batch_insert_data's list of FailedRecord entries
  s_result,       \* what the single-record operation returned
  a_variant,      \* the authenticate run: shared (auth.py), metric, standard
  settings,       \* the credential fields that are not empty
  a_pc,           \* where authenticate is: idle, start, posted, done
  a_res,          \* how authenticate ended
  posts,          \* the requests sent to the token endpoint
  csv_records,    \* the records given to convert_records_to_csv_string
  field_order,    \* its field_order argument, <<>> when none is given
  csv_string,     \* the CSV text, character by character
  parsed,         \* what parse_csv_string_to_records made of the text
  c_pc,           \* the round trip's position: idle, start, converted, parsed
  h_variant,      \* the batch handler run: sfdc (routers/sfdc.py), bulk (bulk.py)
  operation_type, \* payload.operation_type, as the validator returns it
  use_bulk_api,   \* payload.use_bulk_api
  h_ext,          \* payload.external_id_field is given
  h_records,      \* payload.records: has each an Id, a value for the external id
  h_pc,           \* where the handler is: idle, start, bulk, loop, done
  h_i,            \* the record of the loop, from 1
  success_count,  \* the handler's success_count
  failed_count,   \* the handler's failed_count
  results_summary,  \* the "success" of every single_op_result
  counted,        \* the counter that was raised for every record
  rest_calls,     \* the single-record REST operations called, in order
  bulk_log,       \* how every perform_bulk_operation call ended
  h_res           \* the handler's response

authVars == <<variant, access_token, instance_url, token_expiry, issued_at>>
callerVars == <<token_lock, lock_waiters, pc, hist, calls, authFailed>>
transportVars == <<t_pc, t_req, is_bulk_api, attempt, headers, t_res, log>>
bulkVars == <<b_variant, records, b_pc, job_id, b_err, b_res, abortCalls>>
payloadVars == <<operation, external_id_field>>
resultVars == <<is_query_job, results_data, partition>>
recordVars == <<s_op, s_pc, num_records, max_attempts, attempt_no, chunk_start,
                rec, sf_log, successful_records, failed_records, s_result>>
credVars == <<a_variant, settings, a_pc, a_res, posts>>
csvVars == <<csv_records, field_order, csv_string, parsed, c_pc>>
batchVars == <<h_variant, operation_type, use_bulk_api, h_ext, h_records, h_pc,
               h_i, success_count, failed_count, results_summary, counted,
               rest_calls, bulk_log, h_res>>
extraVars == <<credVars, csvVars, batchVars>>
restVars == <<payloadVars, resultVars, recordVars, extraVars>>
vars == <<variant, access_token, instance_url, token_expiry, issued_at, now,
          token_lock, lock_waiters, pc, hist, calls, authCalls, authFailed, tokSeq,
          t_pc, t_req, is_bulk_api, attempt, headers, t_res, log,
          b_variant, records, b_pc, job_id, b_err, b_res, jobState, abortCalls,
          operation, external_id_field, is_query_job, results_data, partition,
          s_op, s_pc, num_records, max_attempts, attempt_no, chunk_start, rec,
          sf_log, successful_records, failed_records, s_result, extraVars>>

\* ------------------------------------------------------------ token cache
Cache == [access_token |-> access_token, instance_url |-> instance_url,
          token_expiry |-> token_expiry, issued_at |-> issued_at]

EmptyCache == [access_token |-> NoToken, instance_url |-> NoUrl,
               token_expiry |-> NoExpiry, issued_at |-> NoIssued]

\* What the token endpoint can answer: a network error, a non-2xx status, a
\* complete 2xx body, or a 2xx body that lacks one of the three fields the
\* code reads.
AuthResponses ==
  { [kind |-> "neterr", has_token |-> FALSE, has_url |-> FALSE, has_issued |-> FALSE],
    [kind |-> "http", has_token |-> FALSE, has_url |-> FALSE, has_issued |-> FALSE],
    [kind |-> "ok", has_token |-> TRUE, has_url |-> TRUE, has_issued |-> TRUE],
    [kind |-> "ok", has_token |-> FALSE, has_url |-> TRUE, has_issued |-> TRUE],
    [kind |-> "ok", has_token |-> TRUE, has_url |-> FALSE, has_issued |-> TRUE],
    [kind |-> "ok", has_token |-> TRUE, has_url |-> TRUE, has_issued |-> FALSE] }

RefreshBuffer(v) == IF v = "shared" THEN RefreshBufferShared ELSE RefreshBufferMetric

\* (mutant) the refresh buffer compared with > instead of >=
IsTokenExpiredStrict(v, c, t) ==
  \/ c.token_expiry = NoExpiry
  \/ c.access_token = NoToken
  \/ t > c.token_expiry - RefreshBuffer(v)

\* _is_token_expired
IsTokenExpired(v, c, t) ==
  \/ c.token_expiry = NoExpiry
  \/ c.access_token = NoToken
  \/ t >= c.token_expiry - RefreshBuffer(v)

\* (mutant) get_auth_details that authenticates on every call
NeedsAuthenticateAlways(v, c, t) == TRUE

\* The condition under which get_auth_details calls authenticate()
NeedsAuthenticate(v, c, t) ==
  IF v = "shared"
  THEN IsTokenExpired(v, c, t) \/ c.access_token = NoToken \/ c.instance_url = NoUrl
  ELSE c.access_token = NoToken \/ IsTokenExpired(v, c, t)

\* authenticate() of shared/src/salesforce/auth.py on the answer resp; tok is
\* the token a 2xx answer carries, t the time. The result is the cache after
\* the call and the exception it raised ("none" when it returned).
AuthenticateShared(c, resp, tok, t) ==
  IF resp.kind = "neterr" THEN [cache |-> c, err |-> "503"]
  ELSE IF resp.kind = "http" THEN [cache |-> c, err |-> "http"]
  ELSE
    LET c1 == [c EXCEPT !.access_token = IF resp.has_token THEN tok ELSE NoToken,
                        !.instance_url = IF resp.has_url THEN TheUrl ELSE NoUrl]
    IN IF ~resp.has_issued THEN [cache |-> c1, err |-> "TypeError"]
       ELSE LET c2 == [c1 EXCEPT !.issued_at = t]
            IN IF c2.access_token = NoToken \/ c2.instance_url = NoUrl
               THEN [cache |-> c2, err |-> "500"]
               ELSE [cache |-> [c2 EXCEPT !.token_expiry = c2.issued_at + AssumedValidity],
                     err |-> "none"]

\* authenticate() of salesforce_metric.py
AuthenticateMetric(c, resp, tok, t) ==
  IF resp.kind = "neterr" THEN [cache |-> c, err |-> "503"]
  ELSE IF resp.kind = "http" THEN [cache |-> c, err |-> "http"]
  ELSE IF ~resp.has_token THEN [cache |-> c, err |-> "KeyError"]
  ELSE
    LET c1 == [c EXCEPT !.access_token = tok]
    IN IF ~resp.has_url THEN [cache |-> c1, err |-> "KeyError"]
       ELSE LET c2 == [c1 EXCEPT !.instance_url = TheUrl]
            IN [cache |-> [c2 EXCEPT !.token_expiry =
                              IF resp.has_issued THEN t + ExpiresInDefault
                              ELSE t + FallbackHour],
                err |-> "none"]

Authenticate(v, c, resp, tok, t) ==
  IF v = "shared" THEN AuthenticateShared(c, resp, tok, t)
  ELSE AuthenticateMetric(c, resp, tok, t)

\* (mutant) a 401 handler that leaves the cached token in place
InvalidateOn401Never(v, c) == c

\* What handle_401_unauthorized / handle_401 does to the cache before it
\* calls authenticate()
InvalidateOn401(v, c) ==
  IF v = "shared"
  THEN [c EXCEPT !.access_token = NoToken, !.token_expiry = NoExpiry]
  ELSE c

SetCache(c) ==
  /\ access_token' = c.access_token
  /\ instance_url' = c.instance_url
  /\ token_expiry' = c.token_expiry
  /\ issued_at' = c.issued_at

\* ------------------------------------------------- concurrent callers
\* hist[p] describes caller p's call in progress, or its last finished call:
\*   op        "get" (get_auth_details) or "h401" (handle_401_unauthorized)
\*   cold      the call was made before any token was ever cached
\*   didAuth   the call started an authenticate() network call
\*   status    "run", then "ok" (returned) or "err" (raised)
\*   res_tok, res_url   the pair a "get" returned
\*   chkFull   token, instance url and expiry were all cached when the "get"
\*             ran its expiry check; chkDue: the time was then at or past
\*             expiry minus the refresh buffer
\*   oldTok    the token cached when this "h401" was called
\*   after401  p's previous call was an "h401"; tok401: the token cached when
\*             that call was made; ok401: that call returned
NoHist == [op |-> "none", cold |-> FALSE, didAuth |-> FALSE,
           status |-> "none", res_tok |-> NoToken, res_url |-> NoUrl,
           chkFull |-> FALSE, chkDue |-> FALSE,
           oldTok |-> NoToken, after401 |-> FALSE, tok401 |-> NoToken, ok401 |-> FALSE]

\* SalesforceAuth as constructed: nothing cached, the lock free.
AuthInit ==
  /\ access_token = NoToken
  /\ instance_url = NoUrl
  /\ token_expiry = NoExpiry
  /\ issued_at = NoIssued
  /\ now = 0
  /\ token_lock = 0
  /\ lock_waiters = <<>>
  /\ pc = [p \in Procs |-> "idle"]
  /\ hist = [p \in Procs |-> NoHist]
  /\ calls = 0
  /\ authCalls = 0
  /\ authFailed = FALSE
  /\ tokSeq = 0

\* No transport call is under way.
TransportIdle ==
  /\ t_pc = "idle"
  /\ t_req = "none"
  /\ is_bulk_api = FALSE
  /\ attempt = 0
  /\ headers = NoToken
  /\ t_res = "none"
  /\ log = <<>>

\* authenticate is not being run on its own.
CredIdle ==
  /\ a_variant = "shared"
  /\ settings = {}
  /\ a_pc = "idle"
  /\ a_res = "none"
  /\ posts = 0

\* No CSV text is being written or read on its own.
CsvIdle ==
  /\ csv_records = <<>>
  /\ field_order = <<>>
  /\ csv_string = <<>>
  /\ parsed = [error |-> FALSE, records |-> <<>>]
  /\ c_pc = "idle"

\* No response of the batch handler
NoResponse == [status |-> "none", success |-> FALSE, job_id |-> FALSE]

\* The batch handler is not running.
BatchIdle ==
  /\ h_variant = "sfdc"
  /\ operation_type = "create"
  /\ use_bulk_api = FALSE
  /\ h_ext = FALSE
  /\ h_records = <<>>
  /\ h_pc = "idle"
  /\ h_i = 0
  /\ success_count = 0
  /\ failed_count = 0
  /\ results_summary = <<>>
  /\ counted = <<>>
  /\ rest_calls = <<>>
  /\ bulk_log = <<>>
  /\ h_res = NoResponse

ExtraIdle == CredIdle /\ CsvIdle /\ BatchIdle

\* No record operation is under way.
RecordsIdle ==
  /\ s_op = "insert"
  /\ s_pc = "idle"
  /\ num_records = 0
  /\ max_attempts = 0
  /\ attempt_no = 0
  /\ chunk_start = 0
  /\ rec = 0
  /\ sf_log = <<>>
  /\ successful_records = <<>>
  /\ failed_records = <<>>
  /\ s_result = "none"

\* No bulk submission is under way.
BulkIdle ==
  /\ b_variant = "src"
  /\ records = <<>>
  /\ b_pc = "idle"
  /\ job_id = FALSE
  /\ b_err = "none"
  /\ b_res = "none"
  /\ jobState = "none"
  /\ abortCalls = 0
  /\ operation = "insert"
  /\ external_id_field = FALSE
  /\ is_query_job = FALSE
  /\ results_data = {}
  /\ partition = "none"
  /\ RecordsIdle

Init ==
  /\ variant \in Variants
  /\ AuthInit
  /\ TransportIdle
  /\ ExtraIdle
  /\ BulkIdle

\* (mutant) no mutual exclusion: every caller passes at once
LockFreeAlways == TRUE

\* asyncio.Lock.acquire takes the lock at once, without suspending, when it
\* is free and nobody is queued; otherwise the caller queues (FIFO).
LockFree == token_lock = 0 /\ lock_waiters = <<>>

\* asyncio.Lock.release by p, who goes to newpc: the first waiter is woken
\* and owns the lock.
PcAfterRelease(p, newpc) ==
  [q \in Procs |-> IF q = p THEN newpc
                   ELSE IF lock_waiters # <<>> /\ q = Head(lock_waiters) THEN "locked"
                   ELSE pc[q]]

Release(p, newpc) ==
  /\ pc' = PcAfterRelease(p, newpc)
  /\ IF lock_waiters = <<>>
     THEN token_lock' = 0 /\ UNCHANGED lock_waiters
     ELSE token_lock' = Head(lock_waiters) /\ lock_waiters' = Tail(lock_waiters)

\* The authenticate() request of caller p goes out; p keeps the lock.
StartAuthenticate(p) ==
  /\ pc' = [pc EXCEPT ![p] = "inflight"]
  /\ token_lock' = p
  /\ UNCHANGED lock_waiters
  /\ authCalls' = authCalls + 1

\* get_auth_details with the lock held, h being p's record: the expiry
\* check, then either authenticate() or the cached pair is returned.
GetUnderLock(p, h) ==
  LET full == access_token # NoToken /\ instance_url # NoUrl /\ token_expiry # NoExpiry
      due == token_expiry # NoExpiry /\ now >= token_expiry - RefreshBuffer(variant)
      h1 == [h EXCEPT !.chkFull = full, !.chkDue = due]
  IN /\ IF NeedsAuthenticate(variant, Cache, now)
        THEN /\ StartAuthenticate(p)
             /\ hist' = [hist EXCEPT ![p] = [h1 EXCEPT !.didAuth = TRUE]]
        ELSE /\ Release(p, "idle")
             /\ hist' = [hist EXCEPT ![p] = [h1 EXCEPT !.status = "ok",
                                                !.res_tok = access_token,
                                                !.res_url = instance_url]]
             /\ UNCHANGED authCalls
     /\ UNCHANGED authVars

\* handle_401_unauthorized / handle_401 with the lock held: invalidate
\* (shared only), then authenticate().
Handle401UnderLock(p, h) ==
  /\ SetCache(InvalidateOn401(variant, Cache))
  /\ UNCHANGED variant
  /\ StartAuthenticate(p)
  /\ hist' = [hist EXCEPT ![p] = [h EXCEPT !.didAuth = TRUE]]

UnderLock(p, h) ==
  IF h.op = "get" THEN GetUnderLock(p, h) ELSE Handle401UnderLock(p, h)

\* A caller enters get_auth_details ("get") or handle_401_unauthorized
\* ("h401") and reaches `async with token_lock`: with the lock free it runs
\* on to its first suspension point, otherwise it queues.
Call(p, o) ==
  /\ pc[p] = "idle"
  /\ calls < MaxCalls
  /\ calls' = calls + 1
  /\ LET h == [NoHist EXCEPT !.op = o, !.status = "run",
                             !.cold = (access_token = NoToken /\ tokSeq = 0),
                             !.oldTok = IF o = "h401" THEN access_token ELSE NoToken,
                             !.after401 = (hist[p].op = "h401"),
                             !.tok401 = hist[p].oldTok,
                             !.ok401 = (hist[p].op = "h401" /\ hist[p].status = "ok")]
     IN IF LockFree
        THEN UnderLock(p, h)
        ELSE /\ lock_waiters' = Append(lock_waiters, p)
             /\ pc' = [pc EXCEPT ![p] = "waiting"]
             /\ hist' = [hist EXCEPT ![p] = h]
             /\ UNCHANGED <<token_lock, authVars, authCalls>>
  /\ UNCHANGED <<now, authFailed, tokSeq, transportVars, bulkVars, restVars, jobState>>

\* A caller that waited for the lock and was woken owning it runs on.
Resume(p) ==
  /\ pc[p] = "locked"
  /\ UnderLock(p, hist[p])
  /\ UNCHANGED <<now, calls, authFailed, tokSeq, transportVars, bulkVars, restVars, jobState>>

\* The token endpoint answers the caller whose authenticate() is in flight;
\* authenticate() finishes, the lock is released and the call returns or raises.
AuthResponse(p, resp) ==
  /\ pc[p] = "inflight"
  /\ LET r == Authenticate(variant, Cache, resp, tokSeq + 1, now)
         c == r.cache
         \* get_auth_details (shared) checks the pair once more after the lock
         bad == variant = "shared" /\ hist[p].op = "get"
                  /\ (c.access_token = NoToken \/ c.instance_url = NoUrl)
         ok == r.err = "none" /\ ~bad
         isGet == hist[p].op = "get"
     IN /\ SetCache(c)
        /\ authFailed' = (authFailed \/ r.err # "none")
        /\ hist' = [hist EXCEPT ![p].status = IF ok THEN "ok" ELSE "err",
                                ![p].res_tok = IF ok /\ isGet THEN c.access_token ELSE NoToken,
                                ![p].res_url = IF ok /\ isGet THEN c.instance_url ELSE NoUrl]
  /\ tokSeq' = IF resp.kind = "ok" /\ resp.has_token THEN tokSeq + 1 ELSE tokSeq
  /\ Release(p, "idle")
  /\ UNCHANGED <<variant, now, calls, authCalls, transportVars, bulkVars, restVars, jobState>>

Tick ==
  /\ now < MaxTime
  /\ now' = now + 1
  /\ UNCHANGED <<authVars, callerVars, authCalls, tokSeq,
                 transportVars, bulkVars, restVars, jobState>>

Next ==
  \/ \E p \in Procs : Call(p, "get")
  \/ \E p \in Procs : Call(p, "h401")
  \/ \E p \in Procs : Resume(p)
  \/ \E p \in Procs, resp \in AuthResponses : AuthResponse(p, resp)
  \/ Tick

Spec == Init /\ [][Next]_vars

\* The event loop runs the caller that was woken owning the lock, and the
\* token request ends: the httpx client has a timeout, so authenticate()
\* gets an answer or a network error. One caller at most owns the lock, so
\* the two conditions need not be stated caller by caller.
Fairness ==
  /\ WF_vars(\E p \in Procs : Resume(p))
  /\ WF_vars(\E p \in Procs, resp \in AuthResponses : AuthResponse(p, resp))

\* The calls of concurrent callers made within one tick of the clock
NextFair ==
  \/ \E p \in Procs : Call(p, "get")
  \/ \E p \in Procs : Call(p, "h401")
  \/ \E p \in Procs : Resume(p)
  \/ \E p \in Procs, resp \in AuthResponses : AuthResponse(p, resp)

SpecFair == Init /\ [][NextFair]_vars /\ Fairness

\* ------------------------------------------------------------ transport
\* One call of SalesforceApiClient._request (client.py, over the shared
\* SalesforceAuth) or of make_request_with_retries (salesforce_metric.py),
\* made by a single caller: every get_auth_details() and every HTTP attempt
\* is a step, and handle_401_unauthorized() runs between two attempts.
MAX_RETRIES == 1

HttpOutcomes == {"ok", "401", "http", "neterr"}

OkFull == [kind |-> "ok", has_token |-> TRUE, has_url |-> TRUE, has_issued |-> TRUE]

\* The exception a failed authenticate() reaches the caller as
AuthErr(e) == IF e \in {"503", "http", "500"} THEN "AuthHTTP" ELSE e

AuthErrors == {"AuthHTTP", "TypeError", "KeyError"}

\* get_auth_details() run by a single caller, the token endpoint answering
\* resp if it is asked
GetAuthDetails(v, c, resp, tok, t) ==
  IF ~NeedsAuthenticate(v, c, t)
  THEN [cache |-> c, err |-> "none", called |-> FALSE]
  ELSE LET r == Authenticate(v, c, resp, tok, t)
       IN [cache |-> r.cache,
           err |-> IF r.err # "none" THEN AuthErr(r.err)
                   ELSE IF v = "shared" /\ (r.cache.access_token = NoToken
                                              \/ r.cache.instance_url = NoUrl)
                        THEN "AuthHTTP"
                        ELSE "none",
           called |-> TRUE]

\* handle_401_unauthorized() / handle_401() run by a single caller
HandleUnauthorized(v, c, resp, tok, t) ==
  LET r == Authenticate(v, InvalidateOn401(v, c), resp, tok, t)
  IN [cache |-> r.cache, err |-> AuthErr(r.err)]

\* (mutant) a retry loop that allows one more attempt
AfterSendOneMore(v, out, att) ==
  IF out = "ok" THEN [pc |-> "done", res |-> "ok"]
  ELSE IF out = "401"
       THEN IF att < MAX_RETRIES + 1 THEN [pc |-> "refresh", res |-> "none"]
            ELSE [pc |-> "done", res |-> "HTTP401"]
  ELSE IF out = "http" THEN [pc |-> "done", res |-> "HTTPerr"]
  ELSE IF v = "shared"
       THEN IF att < MAX_RETRIES + 1 THEN [pc |-> "done", res |-> "NameError"]
            ELSE [pc |-> "done", res |-> "HTTP503"]
       ELSE [pc |-> "done", res |-> "RequestError"]

\* What the retry loop does with the outcome of attempt att: return the
\* response, refresh the token and go round again, or raise. In client.py the
\* network-error branch of a first attempt evaluates asyncio.sleep, and the
\* module does not import asyncio.
AfterSend(v, out, att) ==
  IF out = "ok" THEN [pc |-> "done", res |-> "ok"]
  ELSE IF out = "401"
       THEN IF att < MAX_RETRIES THEN [pc |-> "refresh", res |-> "none"]
            ELSE [pc |-> "done", res |-> "HTTP401"]
  ELSE IF out = "http" THEN [pc |-> "done", res |-> "HTTPerr"]
  ELSE IF v = "shared"
       THEN IF att < MAX_RETRIES THEN [pc |-> "done", res |-> "NameError"]
            ELSE [pc |-> "done", res |-> "HTTP503"]
       ELSE [pc |-> "done", res |-> "RequestError"]

\* What a request that Salesforce answered with out does to the ingest job
ServerApply(s, req, out) ==
  IF out # "ok" THEN s
  ELSE IF req = "create" THEN "Open"
  ELSE IF req = "close" THEN "UploadComplete"
  ELSE IF req = "abort" THEN "Aborted"
  ELSE s

\* The transport call is entered with request req.
StartTransport(req, bulk) ==
  /\ t_pc' = IF variant = "shared" THEN "base" ELSE "headers"
  /\ t_req' = req
  /\ is_bulk_api' = bulk
  /\ attempt' = 0
  /\ headers' = NoToken
  /\ t_res' = "none"

\* The transport call's result has been taken; none is under way.
EndTransport ==
  /\ t_pc' = "idle"
  /\ UNCHANGED <<t_req, is_bulk_api, attempt, headers, t_res>>

\* A get_auth_details() made by the transport call, which goes on to `to`
\* when it returns and raises what it raises.
TransportAuth(to, resp) ==
  /\ NeedsAuthenticate(variant, Cache, now) \/ resp = OkFull
  /\ LET r == GetAuthDetails(variant, Cache, resp, tokSeq + 1, now)
     IN /\ SetCache(r.cache)
        /\ authCalls' = IF r.called THEN authCalls + 1 ELSE authCalls
        /\ tokSeq' = IF r.called /\ resp.kind = "ok" /\ resp.has_token
                     THEN tokSeq + 1 ELSE tokSeq
        /\ IF r.err # "none"
           THEN t_pc' = "done" /\ t_res' = r.err /\ UNCHANGED headers
           ELSE /\ t_pc' = to
                /\ t_res' = t_res
                /\ headers' = IF to = "send" THEN r.cache.access_token ELSE headers
  /\ UNCHANGED <<variant, now, callerVars, t_req, is_bulk_api, attempt, log,
                 bulkVars, restVars, jobState>>

\* _get_base_url
GetBaseUrl(resp) ==
  /\ t_pc = "base"
  /\ TransportAuth(IF is_bulk_api THEN "bulkurl" ELSE "headers", resp)

\* the second get_auth_details() of a Bulk API request
GetBulkUrl(resp) ==
  /\ t_pc = "bulkurl"
  /\ TransportAuth("headers", resp)

\* _get_headers at the top of an attempt; in salesforce_metric.py the
\* caller's get_auth_details() and the one after handle_401()
GetHeaders(resp) ==
  /\ t_pc = "headers"
  /\ TransportAuth("send", resp)

\* The HTTP attempt goes out and Salesforce answers it.
Send(out) ==
  /\ t_pc = "send"
  /\ log' = Append(log, [req |-> t_req, st |-> out, tok |-> headers])
  /\ jobState' = ServerApply(jobState, t_req, out)
  /\ LET a == AfterSend(variant, out, attempt)
     IN t_pc' = a.pc /\ t_res' = a.res
  /\ UNCHANGED <<authVars, now, callerVars, authCalls, tokSeq,
                 t_req, is_bulk_api, attempt, headers, bulkVars, restVars>>

\* handle_401_unauthorized() / handle_401() after a 401, then the next attempt
Refresh(resp) ==
  /\ t_pc = "refresh"
  /\ LET r == HandleUnauthorized(variant, Cache, resp, tokSeq + 1, now)
     IN /\ SetCache(r.cache)
        /\ log' = Append(log, [req |-> "refresh",
                               st |-> IF r.err = "none" THEN "ok" ELSE "err",
                               tok |-> r.cache.access_token])
        /\ IF r.err # "none"
           THEN t_pc' = "done" /\ t_res' = r.err /\ UNCHANGED attempt
           ELSE t_pc' = "headers" /\ t_res' = t_res /\ attempt' = attempt + 1
  /\ authCalls' = authCalls + 1
  /\ tokSeq' = IF resp.kind = "ok" /\ resp.has_token THEN tokSeq + 1 ELSE tokSeq
  /\ UNCHANGED <<variant, now, callerVars, t_req, is_bulk_api, headers,
                 bulkVars, restVars, jobState>>

\* A caller makes one REST or Bulk API request through the transport.
Request(bulk) ==
  /\ t_pc = "idle"
  /\ log = <<>>
  /\ variant = "metric" => ~bulk
  /\ StartTransport("rest", bulk)
  /\ UNCHANGED <<authVars, now, callerVars, authCalls, tokSeq, log, bulkVars, restVars, jobState>>

TransportStep ==
  \/ \E resp \in AuthResponses : GetBaseUrl(resp)
  \/ \E resp \in AuthResponses : GetBulkUrl(resp)
  \/ \E resp \in AuthResponses : GetHeaders(resp)
  \/ \E out \in HttpOutcomes : Send(out)
  \/ \E resp \in AuthResponses : Refresh(resp)

NextTransport ==
  \/ \E bulk \in BOOLEAN : Request(bulk)
  \/ TransportStep
  \/ Tick

SpecTransport == Init /\ [][NextTransport]_vars

\* ------------------------------------------------------ bulk submission
\* perform_bulk_operation of src/salesforce/operations.py ("src") and of
\* shared/src/salesforce/operations.py ("shared"), for the DML operations,
\* over SalesforceApiClient: create_bulk_ingest_job and update_bulk_job_state
\* go through _request, upload_bulk_job_data sends its PUT itself.
BulkVariants == {"src", "shared"}

\* payload.records: none, one record without fields, one record with a field
RecordInputs == {<<>>, <<{}>>, <<{"Name"}>>}

\* The body of the 2xx answer to the job creation: complete, or lacking the
\* id or the contentUrl
CreateBodies == {"full", "no_id", "no_url"}

UploadOutcomes == {"201", "2xx", "401", "http", "neterr"}

\* convert_records_to_csv_string: the lines of the CSV text, the header and
\* then one line per record holding the header's fields the record has
convert_records_to_csv_string(recs) ==
  IF recs = <<>> THEN <<>>
  ELSE LET fieldnames == recs[1]
       IN IF fieldnames = {} THEN <<>>
          ELSE <<fieldnames>> \o [i \in 1..Len(recs) |-> recs[i] \cap fieldnames]

\* The checks between the job creation and the upload that abort the job and
\* raise HTTP 400: no records, or a CSV text that is empty or only a header
RejectedBeforeUpload(bv, recs) ==
  LET csv_data == convert_records_to_csv_string(recs)
  IN IF bv = "src"
     THEN recs = <<>> \/ Len(csv_data) < 2
     ELSE Len(csv_data) = 0

HTTPExceptions == {"AuthHTTP", "HTTP401", "HTTPerr", "HTTP503", "HTTP400", "HTTP500"}

\* (mutant) an upload whose outcome is not looked at
AfterUploadAlwaysClose(bv, out) == [next |-> "close", err |-> "none"]

\* What follows the upload PUT answered with out: upload_bulk_job_data
\* returns whether the status was 201 or raises HTTPException; src aborts
\* and raises when it returned False, shared goes on whatever it returned.
AfterUpload(bv, out) ==
  IF out = "201" THEN [next |-> "close", err |-> "none"]
  ELSE IF out = "2xx"
       THEN IF bv = "src" THEN [next |-> "abort", err |-> "HTTP500"]
            ELSE [next |-> "close", err |-> "none"]
  ELSE IF out = "401" THEN [next |-> "raise", err |-> "HTTP401"]
  ELSE IF out = "http" THEN [next |-> "raise", err |-> "HTTPerr"]
  ELSE [next |-> "raise", err |-> "HTTP503"]

\* The exception the except clauses raise for the caught exception e when
\* the abort they make does not raise
Surfaced(bv, e) ==
  IF bv = "src" /\ e \in HTTPExceptions THEN e ELSE "HTTP500"

\* The exception that reaches the caller once the except clause's abort has
\* ended with abortRes: src logs a failed abort, shared lets it escape.
HandlerResult(bv, e, abortRes) ==
  IF bv = "shared" /\ abortRes # "ok" THEN abortRes ELSE Surfaced(bv, e)

\* (mutant) except clauses that never abort
HandlerAbortsNever(jid) == FALSE

\* The except clauses abort the job when job_id is set.
HandlerAborts(jid) == jid

\* Exception e is raised inside the try block, job_id being jid: the except
\* clause aborts the job if jid is set and then raises.
Raise(e, jid) ==
  /\ b_err' = e
  /\ IF HandlerAborts(jid)
     THEN /\ StartTransport("abort", TRUE)
          /\ b_pc' = "abort_handler"
          /\ abortCalls' = abortCalls + 1
          /\ UNCHANGED b_res
     ELSE /\ EndTransport
          /\ b_pc' = "finished"
          /\ b_res' = Surfaced(b_variant, e)
          /\ UNCHANGED abortCalls

\* update_bulk_job_state(job_id, "Aborted") called inside the try block,
\* before e is raised
AbortThenRaise(e) ==
  /\ StartTransport("abort", TRUE)
  /\ b_pc' = "abort_inline"
  /\ b_err' = e
  /\ abortCalls' = abortCalls + 1
  /\ UNCHANGED b_res

\* perform_bulk_operation is called: create_bulk_ingest_job goes out.
PerformBulkOperation ==
  /\ b_pc = "idle"
  /\ t_pc = "idle"
  /\ StartTransport("create", TRUE)
  /\ b_pc' = "create"
  /\ UNCHANGED <<authVars, now, callerVars, authCalls, tokSeq, log,
                 restVars, b_variant, records, job_id, b_err, b_res, jobState, abortCalls>>

\* create_bulk_ingest_job has returned or raised: job_id and contentUrl are
\* read from the answer, the records are validated.
JobCreated(body) ==
  /\ b_pc = "create"
  /\ t_pc = "done"
  /\ t_res # "ok" => body = "full"
  /\ IF t_res # "ok"
     THEN Raise(t_res, FALSE) /\ UNCHANGED job_id
     ELSE LET jid == body # "no_id"
          IN /\ job_id' = jid
             /\ IF body # "full" THEN Raise("HTTP500", jid)
                ELSE IF RejectedBeforeUpload(b_variant, records) THEN AbortThenRaise("HTTP400")
                ELSE /\ EndTransport
                     /\ b_pc' = "upload_url"
                     /\ UNCHANGED <<b_err, b_res, abortCalls>>
  /\ UNCHANGED <<authVars, now, callerVars, authCalls, tokSeq, log,
                 restVars, b_variant, records, jobState>>

\* An abort made inside the try block has ended: the exception it was made
\* for, or the one the abort itself raised, goes to the except clause.
InlineAbortDone ==
  /\ b_pc = "abort_inline"
  /\ t_pc = "done"
  /\ Raise(IF t_res = "ok" THEN b_err ELSE t_res, job_id)
  /\ UNCHANGED <<authVars, now, callerVars, authCalls, tokSeq, log,
                 restVars, b_variant, records, job_id, jobState>>

\* The except clause's abort has ended: the exception reaches the caller.
HandlerAbortDone ==
  /\ b_pc = "abort_handler"
  /\ t_pc = "done"
  /\ b_pc' = "finished"
  /\ b_res' = HandlerResult(b_variant, b_err, t_res)
  /\ EndTransport
  /\ UNCHANGED <<authVars, now, callerVars, authCalls, tokSeq, log,
                 restVars, b_variant, records, job_id, b_err, jobState, abortCalls>>

\* One of the two get_auth_details() calls of upload_bulk_job_data
UploadAuth(to, resp) ==
  /\ NeedsAuthenticate(variant, Cache, now) \/ resp = OkFull
  /\ LET r == GetAuthDetails(variant, Cache, resp, tokSeq + 1, now)
     IN /\ SetCache(r.cache)
        /\ authCalls' = IF r.called THEN authCalls + 1 ELSE authCalls
        /\ tokSeq' = IF r.called /\ resp.kind = "ok" /\ resp.has_token
                     THEN tokSeq + 1 ELSE tokSeq
        /\ IF r.err # "none"
           THEN Raise(r.err, job_id)
           ELSE /\ b_pc' = to
                /\ t_pc' = t_pc
                /\ headers' = IF to = "upload_put" THEN r.cache.access_token ELSE headers
                /\ UNCHANGED <<t_req, is_bulk_api, attempt, t_res,
                               b_err, b_res, abortCalls>>
  /\ UNCHANGED <<variant, now, callerVars, log, restVars, b_variant, records, job_id, jobState>>

\* upload_bulk_job_data: the instance url for the upload url
UploadGetUrl(resp) ==
  /\ b_pc = "upload_url"
  /\ UploadAuth("upload_token", resp)

\* upload_bulk_job_data: the token for the Authorization header
UploadGetToken(resp) ==
  /\ b_pc = "upload_token"
  /\ UploadAuth("upload_put", resp)

\* upload_bulk_job_data: the PUT goes out and Salesforce answers it;
\* perform_bulk_operation goes on to UploadComplete, aborts or raises.
UploadPut(out) ==
  /\ b_pc = "upload_put"
  /\ log' = Append(log, [req |-> "upload", st |-> out, tok |-> headers])
  /\ LET a == AfterUpload(b_variant, out)
     IN IF a.next = "close"
        THEN /\ StartTransport("close", TRUE)
             /\ b_pc' = "close"
             /\ UNCHANGED <<b_err, b_res, abortCalls>>
        ELSE IF a.next = "abort" THEN AbortThenRaise(a.err)
        ELSE Raise(a.err, job_id)
  /\ UNCHANGED <<authVars, now, callerVars, authCalls, tokSeq,
                 restVars, b_variant, records, job_id, jobState>>

\* update_bulk_job_state(job_id, "UploadComplete") has returned or raised:
\* the job id is returned, or the exception goes to the except clause.
CloseDone ==
  /\ b_pc = "close"
  /\ t_pc = "done"
  /\ IF t_res = "ok"
     THEN /\ b_pc' = "finished"
          /\ b_res' = "ok"
          /\ EndTransport
          /\ UNCHANGED <<b_err, abortCalls>>
     ELSE Raise(t_res, job_id)
  /\ UNCHANGED <<authVars, now, callerVars, authCalls, tokSeq, log,
                 restVars, b_variant, records, job_id, jobState>>

InitBulk ==
  /\ variant = "shared"
  /\ AuthInit
  /\ TransportIdle
  /\ ExtraIdle
  /\ b_variant \in BulkVariants
  /\ records \in RecordInputs
  /\ b_pc = "idle"
  /\ job_id = FALSE
  /\ b_err = "none"
  /\ b_res = "none"
  /\ jobState = "none"
  /\ abortCalls = 0
  /\ operation = "insert"
  /\ external_id_field = FALSE
  /\ is_query_job = FALSE
  /\ results_data = {}
  /\ partition = "none"
  /\ RecordsIdle

NextBulk ==
  \/ PerformBulkOperation
  \/ TransportStep
  \/ \E body \in CreateBodies : JobCreated(body)
  \/ InlineAbortDone
  \/ HandlerAbortDone
  \/ \E resp \in AuthResponses : UploadGetUrl(resp)
  \/ \E resp \in AuthResponses : UploadGetToken(resp)
  \/ \E out \in UploadOutcomes : UploadPut(out)
  \/ CloseDone
  \/ Tick

SpecBulk == InitBulk /\ [][NextBulk]_vars

\* ------------------------------------------------- bulk submission handler
Operations == {"insert", "upsert"}

\* The checks handle_bulk_dml_direct_payload makes on the request before it
\* builds the payload: each one answers 400.
RouterRejects(op, ext, recs) == (op = "upsert" /\ ~ext) \/ recs = <<>>

\* The validators of SalesforceBulkOperationPayload, run when the handler
\* constructs the payload: a DML operation needs a non-empty list of records
\* (a list holding one record without fields is non-empty), an upsert needs
\* an external id field.
SchemaRejects(op, ext, recs) == recs = <<>> \/ (op = "upsert" /\ ~ext)

PayloadRejectedRecordsOnly(op, ext, recs) == recs = <<>>

PayloadRejected(op, ext, recs) ==
  RouterRejects(op, ext, recs) \/ SchemaRejects(op, ext, recs)

\* The handler receives the submission: it is rejected here, or
\* perform_bulk_operation is about to be called with the payload.
SubmitIngest ==
  /\ b_pc = "submit"
  /\ IF PayloadRejected(operation, external_id_field, records)
     THEN /\ b_pc' = "finished"
          /\ b_res' = IF RouterRejects(operation, external_id_field, records)
                      THEN "HTTP400" ELSE "ValidationError"
     ELSE /\ b_pc' = "idle"
          /\ UNCHANGED b_res
  /\ UNCHANGED <<authVars, now, callerVars, authCalls, tokSeq, transportVars,
                 restVars, b_variant, records, job_id, b_err, jobState, abortCalls>>

InitSubmit ==
  /\ variant = "shared"
  /\ AuthInit
  /\ TransportIdle
  /\ ExtraIdle
  /\ b_variant \in BulkVariants
  /\ records \in RecordInputs
  /\ operation \in Operations
  /\ external_id_field \in BOOLEAN
  /\ b_pc = "submit"
  /\ job_id = FALSE
  /\ b_err = "none"
  /\ b_res = "none"
  /\ jobState = "none"
  /\ abortCalls = 0
  /\ is_query_job = FALSE
  /\ results_data = {}
  /\ partition = "none"
  /\ RecordsIdle

NextSubmit ==
  \/ SubmitIngest
  \/ NextBulk

SpecSubmit == InitSubmit /\ [][NextSubmit]_vars

\* ------------------------------------------------------- bulk job results
\* get_bulk_job_status_and_results of src/salesforce/operations.py, for a job
\* that exists on the server in state jobState.
JobStates == {"Open", "UploadComplete", "InProgress", "JobComplete", "Failed", "Aborted"}

\* The result partitions the function fetches for a completed ingest job, in
\* the order of its calls
IngestPartitions == <<"successful", "failed">>

NextPartition(part) ==
  IF \E i \in 1..(Len(IngestPartitions) - 1) : IngestPartitions[i] = part
  THEN IngestPartitions[(CHOOSE i \in 1..(Len(IngestPartitions) - 1) :
                           IngestPartitions[i] = part) + 1]
  ELSE "none"

FetchOutcomes == {"ok", "http", "neterr"}

\* The HTTPException a result getter raises for the answer out
FetchError(out) == IF out = "http" THEN "HTTPerr" ELSE "HTTP503"

\* The call ends with exception e, or returns when e is "ok".
ResultsReturn(e) ==
  /\ b_pc' = "finished"
  /\ b_res' = IF e = "ok" THEN "ok" ELSE Surfaced("src", e)
  /\ partition' = "none"

\* The function is called: the GET of the job's status goes out.
GetBulkJobStatusAndResults ==
  /\ b_pc = "r_idle"
  /\ t_pc = "idle"
  /\ StartTransport("status", TRUE)
  /\ b_pc' = "r_status"
  /\ UNCHANGED <<authVars, now, callerVars, authCalls, tokSeq, log, payloadVars, recordVars, extraVars,
                 resultVars, b_variant, records, job_id, b_err, b_res, jobState,
                 abortCalls>>

\* The status request has returned or raised: a job in state JobComplete has
\* its results fetched, any other state is returned without results.
StatusDone ==
  /\ b_pc = "r_status"
  /\ t_pc = "done"
  /\ IF t_res # "ok"
     THEN ResultsReturn(t_res) /\ EndTransport
     ELSE IF jobState # "JobComplete"
     THEN ResultsReturn("ok") /\ EndTransport
     ELSE IF is_query_job
     THEN /\ StartTransport("query_results", TRUE)
          /\ b_pc' = "r_query"
          /\ UNCHANGED <<b_res, partition>>
     ELSE /\ EndTransport
          /\ b_pc' = "r_headers"
          /\ partition' = IngestPartitions[1]
          /\ UNCHANGED b_res
  /\ UNCHANGED <<authVars, now, callerVars, authCalls, tokSeq, log, payloadVars, recordVars, extraVars,
                 is_query_job, results_data, b_variant, records, job_id, b_err,
                 jobState, abortCalls>>

\* The request for a query job's results has returned or raised.
QueryResultsDone ==
  /\ b_pc = "r_query"
  /\ t_pc = "done"
  /\ ResultsReturn(t_res)
  /\ results_data' = IF t_res = "ok" THEN {"query"} ELSE results_data
  /\ EndTransport
  /\ UNCHANGED <<authVars, now, callerVars, authCalls, tokSeq, log, payloadVars, recordVars, extraVars,
                 is_query_job, b_variant, records, job_id, b_err, jobState,
                 abortCalls>>

\* One of the two get_auth_details() calls of a result getter
FetchAuth(to, resp) ==
  /\ NeedsAuthenticate(variant, Cache, now) \/ resp = OkFull
  /\ LET r == GetAuthDetails(variant, Cache, resp, tokSeq + 1, now)
     IN /\ SetCache(r.cache)
        /\ authCalls' = IF r.called THEN authCalls + 1 ELSE authCalls
        /\ tokSeq' = IF r.called /\ resp.kind = "ok" /\ resp.has_token
                     THEN tokSeq + 1 ELSE tokSeq
        /\ IF r.err # "none"
           THEN ResultsReturn(r.err) /\ UNCHANGED headers
           ELSE /\ b_pc' = to
                /\ headers' = IF to = "r_url" THEN r.cache.access_token ELSE headers
                /\ UNCHANGED <<b_res, partition>>
  /\ UNCHANGED <<variant, now, callerVars, t_pc, t_req, is_bulk_api, attempt,
                 t_res, log, payloadVars, recordVars, extraVars, is_query_job, results_data, b_variant,
                 records, job_id, b_err, jobState, abortCalls>>

\* A result getter: the token for the Authorization header
FetchGetHeaders(resp) ==
  /\ b_pc = "r_headers"
  /\ FetchAuth("r_url", resp)

\* A result getter: the instance url for the results url
FetchGetUrl(resp) ==
  /\ b_pc = "r_url"
  /\ FetchAuth("r_get", resp)

\* A result getter: the GET goes out and Salesforce answers it; the function
\* goes on to the next partition, returns or raises.
FetchGet(out) ==
  /\ b_pc = "r_get"
  /\ log' = Append(log, [req |-> partition, st |-> out, tok |-> headers])
  /\ IF out # "ok"
     THEN ResultsReturn(FetchError(out)) /\ UNCHANGED results_data
     ELSE /\ results_data' = results_data \cup {partition}
          /\ IF NextPartition(partition) = "none"
             THEN ResultsReturn("ok")
             ELSE /\ b_pc' = "r_headers"
                  /\ partition' = NextPartition(partition)
                  /\ UNCHANGED b_res
  /\ UNCHANGED <<authVars, now, callerVars, authCalls, tokSeq, t_pc, t_req,
                 is_bulk_api, attempt, headers, t_res, payloadVars, recordVars, extraVars,
                 is_query_job, b_variant, records, job_id, b_err, jobState,
                 abortCalls>>

InitResults ==
  /\ variant = "shared"
  /\ AuthInit
  /\ TransportIdle
  /\ ExtraIdle
  /\ b_variant = "src"
  /\ records = <<>>
  /\ b_pc = "r_idle"
  /\ job_id = TRUE
  /\ b_err = "none"
  /\ b_res = "none"
  /\ jobState \in JobStates
  /\ abortCalls = 0
  /\ operation = "insert"
  /\ external_id_field = FALSE
  /\ is_query_job \in BOOLEAN
  /\ results_data = {}
  /\ partition = "none"
  /\ RecordsIdle

NextResults ==
  \/ GetBulkJobStatusAndResults
  \/ TransportStep
  \/ StatusDone
  \/ QueryResultsDone
  \/ \E resp \in AuthResponses : FetchGetHeaders(resp)
  \/ \E resp \in AuthResponses : FetchGetUrl(resp)
  \/ \E out \in FetchOutcomes : FetchGet(out)
  \/ Tick

SpecResults == InitResults /\ [][NextResults]_vars

\* ------------------------------------------------------ record operations
\* salesforce_standard.py: insert_with_retry, batch_insert_data,
\* update_record_by_id and delete_record_by_id, over a synchronous client.
RETRY_ATTEMPTS == 3
RETRY_DELAY == 5
BatchPause == 2          \* time.sleep(2) after each chunk
TestRecord == 0          \* the record check_storage_availability creates

RecordOps == {"batch", "insert", "update", "delete"}

\* What sf.Account.create does: a response with success, a response without,
\* an exception whose text has STORAGE_LIMIT_EXCEEDED, any other exception
CreateOutcomes == {"success", "nosuccess", "storage", "error"}

\* What sf.Account.update and sf.Account.delete do: 204, another status, an
\* exception whose text has ENTITY_IS_DELETED, any other exception
WriteOutcomes == {"204", "other", "deleted", "error"}

\* check_storage_availability: the create outcomes, and a successful create
\* whose test record cannot be deleted again
CheckOutcomes == CreateOutcomes \cup {"delete_error"}

serviceVars == <<extraVars, authVars, now, callerVars, authCalls, tokSeq, transportVars,
                 bulkVars, jobState, payloadVars, resultVars>>

\* The loop body returns res.
Returned(res) == [ret |-> TRUE, res |-> res, sleep |-> 0]

\* The end of the except clause: sleep and go round again while attempts are
\* left, or return the exception's text.
RetryOrGiveUp(att, max, text) ==
  IF att < max - 1
  THEN [ret |-> FALSE, res |-> "none", sleep |-> RETRY_DELAY * (att + 1)]
  ELSE Returned(text)

\* (mutant) a storage-limit exception is retried like any other
InsertAttemptRetriesStorage(out, att, max) ==
  IF out = "success" THEN Returned("ok")
  ELSE IF out = "nosuccess" THEN Returned("Insert failed")
  ELSE RetryOrGiveUp(att, max, IF out = "storage" THEN "STORAGE_LIMIT_EXCEEDED" ELSE "error")

\* One pass of insert_with_retry's loop, the create call having done out
InsertAttempt(out, att, max) ==
  IF out = "success" THEN Returned("ok")
  ELSE IF out = "nosuccess" THEN Returned("Insert failed")
  ELSE IF out = "storage" THEN Returned("Storage limit exceeded")
  ELSE RetryOrGiveUp(att, max, "error")

\* One pass of update_record_by_id's loop
UpdateAttempt(out, att, max) ==
  IF out = "204" THEN Returned("ok")
  ELSE IF out = "other" THEN Returned("Update failed")
  ELSE IF out = "deleted" THEN Returned("Entity is deleted")
  ELSE RetryOrGiveUp(att, max, "error")

\* One pass of delete_record_by_id's loop: every exception takes the retry
\* branch.
DeleteAttempt(out, att, max) ==
  IF out = "204" THEN Returned("ok")
  ELSE IF out = "other" THEN Returned("Delete failed")
  ELSE RetryOrGiveUp(att, max, IF out = "deleted" THEN "ENTITY_IS_DELETED" ELSE "error")

\* (mutant) batch_insert_data never sees a storage-limit error
IsStorageLimitNever(res) == FALSE

\* "Storage limit exceeded" in error
IsStorageLimit(res) == res = "Storage limit exceeded"

\* (mutant) the storage check always passes
StorageAvailableAlways(out) == TRUE

\* check_storage_availability returns True
StorageAvailable(out) == out = "success"

FailedRecord(r, e) == [record |-> r, error |-> e]

\* FailedRecord(r, "Storage limit exceeded") for every r of records[from:]
AllFailed(from) ==
  [k \in 1..(num_records - from) |->
     FailedRecord(from + k, "Storage limit exceeded")]

\* The entries of sf_log: an API call for record r that did out, a sleep
ApiCall(kind, r, out) == [kind |-> kind, rec |-> r, out |-> out, d |-> 0]
Sleep(d) == [kind |-> "sleep", rec |-> 0, out |-> "none", d |-> d]

\* The operation is called.
CallOperation ==
  /\ s_pc = "start"
  /\ IF s_op = "batch"
     THEN /\ s_pc' = "check"
          /\ UNCHANGED <<attempt_no, rec, s_result>>
     ELSE IF max_attempts = 0
     THEN /\ s_pc' = "done"
          /\ s_result' = "Max retry attempts reached"
          /\ UNCHANGED <<attempt_no, rec>>
     ELSE /\ s_pc' = "call"
          /\ attempt_no' = 0
          /\ rec' = 1
          /\ UNCHANGED s_result
  /\ UNCHANGED <<serviceVars, s_op, num_records, max_attempts, chunk_start,
                 sf_log, successful_records, failed_records>>

\* batch_insert_data runs check_storage_availability: without storage every
\* record is marked failed and the function returns, otherwise the first
\* chunk begins.
CheckStorageAvailability(out) ==
  /\ s_pc = "check"
  /\ sf_log' = IF out = "success"
                THEN sf_log \o <<ApiCall("create", TestRecord, "success"),
                                 ApiCall("delete", TestRecord, "204")>>
                ELSE IF out = "delete_error"
                THEN sf_log \o <<ApiCall("create", TestRecord, "success"),
                                 ApiCall("delete", TestRecord, "error")>>
                ELSE sf_log \o <<ApiCall("create", TestRecord, out)>>
  /\ IF ~StorageAvailable(out)
     THEN /\ failed_records' = AllFailed(0)
          /\ s_pc' = "done"
          /\ UNCHANGED <<attempt_no, chunk_start, rec>>
     ELSE /\ UNCHANGED failed_records
          /\ IF num_records = 0
             THEN s_pc' = "done" /\ UNCHANGED <<attempt_no, chunk_start, rec>>
             ELSE /\ s_pc' = "call"
                  /\ chunk_start' = 0
                  /\ rec' = 1
                  /\ attempt_no' = 0
  /\ UNCHANGED <<serviceVars, s_op, num_records, max_attempts,
                 successful_records, s_result>>

\* batch_insert_data goes on after record rec: to the next record, to the
\* next chunk after the pause, or to its return.
NextRecord(made) ==
  /\ IF rec = num_records
     THEN /\ s_pc' = "done"
          /\ sf_log' = sf_log \o made \o <<Sleep(BatchPause)>>
          /\ UNCHANGED <<rec, chunk_start, attempt_no>>
     ELSE /\ s_pc' = "call"
          /\ rec' = rec + 1
          /\ attempt_no' = 0
          /\ IF rec = chunk_start + BATCH_SIZE
             THEN /\ chunk_start' = chunk_start + BATCH_SIZE
                  /\ sf_log' = sf_log \o made \o <<Sleep(BatchPause)>>
             ELSE /\ UNCHANGED chunk_start
                  /\ sf_log' = sf_log \o made

\* batch_insert_data has res from insert_with_retry for record rec.
BatchRecordDone(res, made) ==
  IF res = "ok"
  THEN /\ successful_records' = Append(successful_records, rec)
       /\ UNCHANGED failed_records
       /\ NextRecord(made)
  ELSE IF IsStorageLimit(res)
  THEN /\ failed_records' = Append(failed_records, FailedRecord(rec, res))
                              \o AllFailed(chunk_start)
       /\ s_pc' = "done"
       /\ sf_log' = sf_log \o made
       /\ UNCHANGED <<successful_records, rec, chunk_start, attempt_no>>
  ELSE /\ failed_records' = Append(failed_records, FailedRecord(rec, res))
       /\ UNCHANGED successful_records
       /\ NextRecord(made)

\* insert_with_retry makes one create call for record rec: it returns, or
\* sleeps and goes round again.
Create(out) ==
  /\ s_pc = "call"
  /\ s_op \in {"batch", "insert"}
  /\ LET a == InsertAttempt(out, attempt_no, max_attempts)
         call == <<ApiCall("create", rec, out)>>
     IN IF ~a.ret
        THEN /\ attempt_no' = attempt_no + 1
             /\ sf_log' = sf_log \o call \o <<Sleep(a.sleep)>>
             /\ UNCHANGED <<s_pc, rec, chunk_start, successful_records,
                            failed_records, s_result>>
        ELSE IF s_op = "insert"
        THEN /\ s_pc' = "done"
             /\ s_result' = a.res
             /\ sf_log' = sf_log \o call
             /\ UNCHANGED <<attempt_no, rec, chunk_start, successful_records,
                            failed_records>>
        ELSE /\ BatchRecordDone(a.res, call)
             /\ UNCHANGED s_result
  /\ UNCHANGED <<serviceVars, s_op, num_records, max_attempts>>

\* update_record_by_id or delete_record_by_id makes one call for the
\* record: it returns, or sleeps and goes round again.
Write(out) ==
  /\ s_pc = "call"
  /\ s_op \in {"update", "delete"}
  /\ LET a == IF s_op = "update"
              THEN UpdateAttempt(out, attempt_no, max_attempts)
              ELSE DeleteAttempt(out, attempt_no, max_attempts)
         call == <<ApiCall(s_op, rec, out)>>
     IN IF ~a.ret
        THEN /\ attempt_no' = attempt_no + 1
             /\ sf_log' = sf_log \o call \o <<Sleep(a.sleep)>>
             /\ UNCHANGED <<s_pc, s_result>>
        ELSE /\ s_pc' = "done"
             /\ s_result' = a.res
             /\ sf_log' = sf_log \o call
             /\ UNCHANGED attempt_no
  /\ UNCHANGED <<serviceVars, s_op, num_records, max_attempts, rec, chunk_start,
                 successful_records, failed_records>>

InitRecords ==
  /\ variant = "shared"
  /\ AuthInit
  /\ TransportIdle
  /\ ExtraIdle
  /\ b_variant = "src"
  /\ records = <<>>
  /\ b_pc = "idle"
  /\ job_id = FALSE
  /\ b_err = "none"
  /\ b_res = "none"
  /\ jobState = "none"
  /\ abortCalls = 0
  /\ operation = "insert"
  /\ external_id_field = FALSE
  /\ is_query_job = FALSE
  /\ results_data = {}
  /\ partition = "none"
  /\ s_op \in RecordOps
  /\ s_pc = "start"
  /\ IF s_op = "batch"
     THEN num_records \in 0..NumRecords /\ max_attempts = RETRY_ATTEMPTS
     ELSE num_records = 1 /\ max_attempts \in 0..RETRY_ATTEMPTS
  /\ attempt_no = 0
  /\ chunk_start = 0
  /\ rec = 0
  /\ sf_log = <<>>
  /\ successful_records = <<>>
  /\ failed_records = <<>>
  /\ s_result = "none"

NextRecords ==
  \/ CallOperation
  \/ \E out \in CheckOutcomes : CheckStorageAvailability(out)
  \/ \E out \in CreateOutcomes : Create(out)
  \/ \E out \in WriteOutcomes : Write(out)

SpecRecords == InitRecords /\ [][NextRecords]_vars

\* ------------------------------------------- authenticate and credentials
\* Every variable of the sections above
baseVars == <<authVars, now, callerVars, authCalls, tokSeq, transportVars,
              bulkVars, jobState, payloadVars, resultVars, recordVars>>

AuthVariants == {"shared", "metric", "standard"}

\* client_id, client_secret, username, password of the settings
CredentialFields == {"client_id", "client_secret", "username", "password"}

\* What the token endpoint answers to a password grant: it accepts none that
\* lacks a credential.
TokenEndpoint(given) ==
  IF given = CredentialFields
  THEN AuthResponses
  ELSE {r \in AuthResponses : r.kind # "ok"}

\* authenticate_salesforce raises before any request when a credential is
\* empty; SalesforceAuth.authenticate has no such check.
ChecksCredentials(v) == v = "standard"

\* How authenticate ends on the answer resp of the token endpoint.
AuthenticateResult(v, resp) ==
  IF v = "shared"
  THEN CASE resp.kind = "neterr" -> "HTTP503"
         [] resp.kind = "http" -> "HTTPStatus"
         [] resp.kind = "ok" /\ ~resp.has_issued -> "TypeError"
         [] resp.kind = "ok" /\ resp.has_issued
              /\ ~(resp.has_token /\ resp.has_url) -> "HTTP500"
         [] OTHER -> "ok"
  ELSE IF v = "metric"
  THEN CASE resp.kind = "neterr" -> "HTTP503"
         [] resp.kind = "http" -> "HTTPStatus"
         [] resp.kind = "ok" /\ ~(resp.has_token /\ resp.has_url) -> "KeyError"
         [] OTHER -> "ok"
  ELSE IF resp.kind = "ok" /\ resp.has_token /\ resp.has_url
       THEN "ok"
       ELSE "SalesforceError"

\* authenticate is called: the credentials are checked where the code checks
\* them, and the password grant is posted.
AuthenticateCalled ==
  /\ a_pc = "start"
  /\ IF ChecksCredentials(a_variant) /\ settings # CredentialFields
     THEN /\ a_pc' = "done"
          /\ a_res' = "MissingCredentials"
          /\ UNCHANGED posts
     ELSE /\ a_pc' = "posted"
          /\ posts' = posts + 1
          /\ UNCHANGED a_res
  /\ UNCHANGED <<baseVars, csvVars, batchVars, a_variant, settings>>

\* The token endpoint answers.
TokenAnswered(resp) ==
  /\ a_pc = "posted"
  /\ resp \in TokenEndpoint(settings)
  /\ a_pc' = "done"
  /\ a_res' = AuthenticateResult(a_variant, resp)
  /\ UNCHANGED <<baseVars, csvVars, batchVars, a_variant, settings, posts>>

InitCredentials ==
  /\ variant = "shared"
  /\ AuthInit
  /\ TransportIdle
  /\ BulkIdle
  /\ CsvIdle
  /\ BatchIdle
  /\ a_variant \in AuthVariants
  /\ settings \in SUBSET CredentialFields
  /\ a_pc = "start"
  /\ a_res = "none"
  /\ posts = 0

NextCredentials ==
  \/ AuthenticateCalled
  \/ \E resp \in AuthResponses : TokenAnswered(resp)

SpecCredentials == InitCredentials /\ [][NextCredentials]_vars

\* ------------------------------------------------------------- CSV text
\* A Python value: its type and the characters of str(value)
NoneValue == [type |-> "NoneType", chars |-> <<>>]
Str(chars) == [type |-> "str", chars |-> chars]
Int1 == [type |-> "int", chars |-> <<"1">>]

\* The field names, each one character of the text; the values a field
\* takes: a plain character, the delimiter, a carriage return
CsvFields == {"Name", "Age"}
FieldValues(k) ==
  IF k = "Name"
  THEN {Str(<<"a">>), Str(<<",">>), Str(<<"CR">>), Str(<<"a", "CR", "a">>)}
  ELSE {NoneValue, Int1}

\* The orders in which a record holds its keys, and a field_order lists them
KeyOrders ==
  {<<>>, <<"Name">>, <<"Age">>, <<"Name", "Age">>, <<"Age", "Name">>}

\* The records: a dict as the sequence of its items, in insertion order
RecordsOver(ks) ==
  {[i \in 1..Len(ks) |-> [key |-> ks[i], value |-> v[i]]] :
     v \in {f \in [1..Len(ks) -> FieldValues("Name") \cup FieldValues("Age")] :
              \A i \in 1..Len(ks) : f[i] \in FieldValues(ks[i])}}
CsvRecords == UNION {RecordsOver(ks) : ks \in KeyOrders}
Batches == UNION {[1..n -> CsvRecords] : n \in 0..MaxBatch}

Keys(record) == [i \in 1..Len(record) |-> record[i].key]
Has(record, k) == \E i \in 1..Len(record) : record[i].key = k
\* rowdict.get(key, restval)
Get(record, k, restval) ==
  IF Has(record, k)
  THEN record[CHOOSE i \in 1..Len(record) : record[i].key = k].value
  ELSE restval

\* (mutant) the columns always taken from the first record
FieldnamesOfFirstRecord(recs, order) == Keys(recs[1])

\* fieldnames: field_order when given, else the keys of the first record
Fieldnames(recs, order) ==
  IF order # <<>> THEN order ELSE Keys(recs[1])

\* The cell the writer makes of a value: '' for None, str(value) otherwise
CellText(value) == IF value.type = "NoneType" THEN <<>> ELSE value.chars

\* QUOTE_MINIMAL with lineterminator '\n': a cell is quoted when it holds
\* the delimiter, the quote character or a character of the line
\* terminator, and when it is the empty only cell of its row.
NeedsQuotes(cell, alone) ==
  \/ \E i \in 1..Len(cell) : cell[i] \in {",", "QUOTE", "LF"}
  \/ cell = <<>> /\ alone

RECURSIVE DoubleQuotes(_)
DoubleQuotes(cell) ==
  IF cell = <<>> THEN <<>>
  ELSE (IF Head(cell) = "QUOTE" THEN <<"QUOTE", "QUOTE">> ELSE <<Head(cell)>>)
         \o DoubleQuotes(Tail(cell))

WriteCell(cell, alone) ==
  IF NeedsQuotes(cell, alone)
  THEN <<"QUOTE">> \o DoubleQuotes(cell) \o <<"QUOTE">>
  ELSE cell

RECURSIVE JoinCells(_, _)
JoinCells(cells, alone) ==
  IF cells = <<>> THEN <<>>
  ELSE IF Len(cells) = 1 THEN WriteCell(cells[1], alone)
  ELSE WriteCell(cells[1], alone) \o <<",">> \o JoinCells(Tail(cells), alone)

\* writer.writerow
WriteRow(cells) == JoinCells(cells, Len(cells) = 1) \o <<"LF">>

\* DictWriter._dict_to_list with restval '' and extrasaction 'ignore'
DictToList(record, fieldnames) ==
  [j \in 1..Len(fieldnames) |->
     CellText(Get(record, fieldnames[j], Str(<<>>)))]

RECURSIVE WriteRows(_, _)
WriteRows(recs, fieldnames) ==
  IF recs = <<>> THEN <<>>
  ELSE WriteRow(DictToList(Head(recs), fieldnames))
         \o WriteRows(Tail(recs), fieldnames)

\* convert_records_to_csv_string(records, field_order), to the character
CsvString(recs, order) ==
  IF recs = <<>> THEN <<>>
  ELSE LET fieldnames == Fieldnames(recs, order)
       IN IF fieldnames = <<>> THEN <<>>
          ELSE WriteRow([j \in 1..Len(fieldnames) |-> <<fieldnames[j]>>])
                 \o WriteRows(recs, fieldnames)

\* csv.reader: the state machine that takes the text one character at a
\* time, nl the characters it reads as the end of a line; "EOL" is the end
\* of each line that the file object hands over.
ReaderStart ==
  [state |-> "START_RECORD", field |-> <<>>, fields |-> <<>>, rows |-> <<>>,
   error |-> FALSE]
SaveField(st) == [st EXCEPT !.fields = Append(@, st.field), !.field = <<>>]
AddChar(st, c) == [st EXCEPT !.field = Append(@, c)]
To(st, state) == [st EXCEPT !.state = state]
EndsLine(c, nl) == c = "EOL" \/ c \in nl
AfterLineEnd(c) == IF c = "EOL" THEN "START_RECORD" ELSE "EAT_CRNL"

StartField(st, c, nl) ==
  IF EndsLine(c, nl) THEN To(SaveField(st), AfterLineEnd(c))
  ELSE IF c = "QUOTE" THEN To(st, "IN_QUOTED_FIELD")
  ELSE IF c = "," THEN To(SaveField(st), "START_FIELD")
  ELSE To(AddChar(st, c), "IN_FIELD")

ProcessChar(st, c, nl) ==
  IF st.error THEN st
  ELSE CASE st.state = "START_RECORD" ->
              IF c = "EOL" THEN st
              ELSE IF c \in nl THEN To(st, "EAT_CRNL")
              ELSE StartField(st, c, nl)
         [] st.state = "START_FIELD" -> StartField(st, c, nl)
         [] st.state = "IN_FIELD" ->
              IF EndsLine(c, nl) THEN To(SaveField(st), AfterLineEnd(c))
              ELSE IF c = "," THEN To(SaveField(st), "START_FIELD")
              ELSE AddChar(st, c)
         [] st.state = "IN_QUOTED_FIELD" ->
              IF c = "EOL" THEN st
              ELSE IF c = "QUOTE" THEN To(st, "QUOTE_IN_QUOTED_FIELD")
              ELSE AddChar(st, c)
         [] st.state = "QUOTE_IN_QUOTED_FIELD" ->
              IF c = "QUOTE" THEN To(AddChar(st, c), "IN_QUOTED_FIELD")
              ELSE IF c = "," THEN To(SaveField(st), "START_FIELD")
              ELSE IF EndsLine(c, nl) THEN To(SaveField(st), AfterLineEnd(c))
              ELSE To(AddChar(st, c), "IN_FIELD")
         [] OTHER ->   \* EAT_CRNL
              IF c \in nl THEN st
              ELSE IF c = "EOL" THEN To(st, "START_RECORD")
              ELSE [st EXCEPT !.error = TRUE]

\* The end of a line: the row is complete unless a quoted field is open.
EndOfLine(st, nl) ==
  LET s == ProcessChar(st, "EOL", nl)
  IN IF ~s.error /\ s.state = "START_RECORD"
     THEN [s EXCEPT !.rows = Append(@, s.fields), !.fields = <<>>]
     ELSE s

\* The end of the text inside a row
EndOfInput(st) ==
  IF ~st.error /\ (st.field # <<>> \/ st.state = "IN_QUOTED_FIELD")
  THEN [st EXCEPT !.rows = Append(@, SaveField(st).fields)]
  ELSE st

RECURSIVE ReadChars(_, _, _, _)
ReadChars(text, i, st, nl) ==
  IF i > Len(text) THEN EndOfInput(st)
  ELSE LET s == ProcessChar(st, text[i], nl)
       IN ReadChars(text, i + 1,
                    IF text[i] = "LF" \/ i = Len(text)
                    THEN EndOfLine(s, nl) ELSE s,
                    nl)

\* The rows csv.reader yields, or the _csv.Error it raises
Rows(text, nl) ==
  LET st == ReadChars(text, 1, ReaderStart, nl)
  IN [error |-> st.error, rows |-> IF st.error THEN <<>> ELSE st.rows]

\* The line ends csv.reader knows: '\n' and '\r'
ReaderNewlines == {"LF", "CR"}

\* csv.DictReader: dict(zip(fieldnames, row)), restval None for a short row
\* and the cells beyond the header under restkey None; the key of a dict is
\* the text of its header cell.
RestKey == <<"None">>
DictOf(header, row) ==
  LET names == {header[j] : j \in 1..Len(header)}
      last(k) == CHOOSE j \in 1..Len(header) :
                   header[j] = k /\ \A m \in (j + 1)..Len(header) : header[m] # k
  IN [k \in names \cup (IF Len(row) > Len(header) THEN {RestKey} ELSE {}) |->
        IF k \in names /\ last(k) <= Len(row) THEN Str(row[last(k)])
        ELSE IF k \in names THEN NoneValue
        ELSE [type |-> "list", chars |-> <<>>]]

\* str.strip() leaves nothing
IsBlank(text) == \A i \in 1..Len(text) : text[i] \in {"LF", "CR"}

\* parse_csv_string_to_records(csv_string)
parse_csv_string_to_records(text) ==
  IF IsBlank(text) THEN [error |-> FALSE, records |-> <<>>]
  ELSE LET read == Rows(text, ReaderNewlines)
           NotEmpty(r) == r # <<>>
           body == IF read.rows = <<>> THEN <<>>
                   ELSE SelectSeq(Tail(read.rows), NotEmpty)
       IN [error |-> read.error,
           records |-> [i \in 1..Len(body) |-> DictOf(read.rows[1], body[i])]]

\* convert_records_to_csv_string is called.
Convert ==
  /\ c_pc = "start"
  /\ csv_string' = CsvString(csv_records, field_order)
  /\ c_pc' = "converted"
  /\ UNCHANGED <<baseVars, credVars, batchVars, csv_records, field_order, parsed>>

\* parse_csv_string_to_records is called on the text.
Parse ==
  /\ c_pc = "converted"
  /\ parsed' = parse_csv_string_to_records(csv_string)
  /\ c_pc' = "parsed"
  /\ UNCHANGED <<baseVars, credVars, batchVars, csv_records, field_order, csv_string>>

InitCsv ==
  /\ variant = "shared"
  /\ AuthInit
  /\ TransportIdle
  /\ BulkIdle
  /\ CredIdle
  /\ BatchIdle
  /\ csv_records \in Batches
  /\ field_order \in KeyOrders
  /\ csv_string = <<>>
  /\ parsed = [error |-> FALSE, records |-> <<>>]
  /\ c_pc = "start"

NextCsv == Convert \/ Parse

SpecCsv == InitCsv /\ [][NextCsv]_vars

\* -------------------------------------------------- batch record handler
HandlerVariants == {"sfdc", "bulk"}

\* What batch_op_type_must_be_valid lets through
BatchOperationTypes(v) ==
  IF v = "sfdc" THEN {"create", "update", "upsert", "delete"}
  ELSE {"create", "update", "upsert", "delete", "insert"}

\* valid_ops of SalesforceBulkOperationPayload.operation_must_be_valid
BulkValidOps ==
  {"insert", "update", "upsert", "delete", "hardDelete", "query", "queryAll"}

\* A record of the payload: it has an Id, it has a value for the external
\* id field
BatchRecords == [has_id : BOOLEAN, has_ext : BOOLEAN]

\* The payloads BatchRecordProcessingPayload accepts: a known operation,
\* the external id field with an upsert, at least one record
ValidBatchPayload(v, op, ext, recs) ==
  /\ op \in BatchOperationTypes(v)
  /\ op = "upsert" => ext
  /\ recs # <<>>
  /\ \A i \in 1..Len(recs) : recs[i].has_ext => ext

RestOutcomes == {"ok", "HTTPException"}

\* SalesforceBulkOperationPayload(operation=payload.operation_type, ...)
\* raises the validation error
BulkPayloadRejected(op) == op \notin BulkValidOps

\* The response to an exception that leaves the handler: sfdc passes an
\* HTTPException on and turns any other into a 500, bulk turns every one
\* into a 500.
HandlerRaises(v, exc) ==
  [status |-> IF v = "sfdc" /\ exc = "HTTPException" THEN "HTTPException" ELSE "500",
   success |-> FALSE, job_id |-> FALSE]

\* The handler is called: with use_bulk_api it builds the bulk payload,
\* otherwise it begins the loop over the records.
HandleBatchRecordProcessing ==
  /\ h_pc = "start"
  /\ IF use_bulk_api
     THEN IF BulkPayloadRejected(operation_type)
          THEN /\ h_pc' = "done"
               /\ h_res' = HandlerRaises(h_variant, "ValidationError")
               /\ UNCHANGED h_i
          ELSE /\ h_pc' = "bulk"
               /\ UNCHANGED <<h_res, h_i>>
     ELSE /\ h_pc' = "loop"
          /\ h_i' = 1
          /\ UNCHANGED h_res
  /\ UNCHANGED <<baseVars, credVars, csvVars, h_variant, operation_type,
                 use_bulk_api, h_ext, h_records, success_count, failed_count,
                 results_summary, counted, rest_calls, bulk_log>>

\* perform_bulk_operation returns the job id or raises.
BulkOperationDone(out) ==
  /\ h_pc = "bulk"
  /\ bulk_log' = Append(bulk_log, out)
  /\ h_pc' = "done"
  /\ h_res' = IF out = "ok"
              THEN [status |-> "200", success |-> TRUE, job_id |-> TRUE]
              ELSE HandlerRaises(h_variant, out)
  /\ UNCHANGED <<baseVars, credVars, csvVars, h_variant, operation_type,
                 use_bulk_api, h_ext, h_records, h_i, success_count,
                 failed_count, results_summary, counted, rest_calls>>

\* The single-record operation the loop calls for record r, "none" when it
\* calls none
RestOperation(v, op, ext, r) ==
  IF v = "sfdc"
  THEN CASE op = "create" -> "create"
         [] op \in {"update", "delete"} -> IF r.has_id THEN op ELSE "none"
         [] OTHER -> IF ext /\ r.has_ext THEN "upsert" ELSE "none"
  ELSE IF op = "create" THEN "create" ELSE "none"

\* The counter raised when no operation is called for a record: sfdc counts
\* the record failed, bulk passes on to success_count += 1.
CountedWithoutCall(v) == IF v = "sfdc" THEN "failed" ELSE "success"

\* One turn of the loop over payload.records, out what the operation called
\* did, and after the last record the response.
ProcessRecord(out) ==
  /\ h_pc = "loop"
  /\ LET r == h_records[h_i]
         call == RestOperation(h_variant, operation_type, h_ext, r)
         count == IF call = "none" THEN CountedWithoutCall(h_variant)
                  ELSE IF out = "ok" THEN "success" ELSE "failed"
         failed == failed_count + (IF count = "failed" THEN 1 ELSE 0)
     IN /\ call = "none" => out = "ok"
        /\ rest_calls' = IF call = "none" THEN rest_calls
                         ELSE Append(rest_calls,
                                     [op |-> call, rec |-> h_i, out |-> out])
        /\ results_summary' = Append(results_summary, call # "none" /\ out = "ok")
        /\ counted' = Append(counted, count)
        /\ success_count' = success_count + (IF count = "success" THEN 1 ELSE 0)
        /\ failed_count' = failed
        /\ IF h_i = Len(h_records)
           THEN /\ h_pc' = "done"
                /\ h_res' = [status |-> "200", success |-> failed = 0,
                             job_id |-> FALSE]
                /\ UNCHANGED h_i
           ELSE /\ h_i' = h_i + 1
                /\ UNCHANGED <<h_pc, h_res>>
  /\ UNCHANGED <<baseVars, credVars, csvVars, h_variant, operation_type,
                 use_bulk_api, h_ext, h_records, bulk_log>>

InitBatch ==
  /\ variant = "shared"
  /\ AuthInit
  /\ TransportIdle
  /\ BulkIdle
  /\ CredIdle
  /\ CsvIdle
  /\ h_variant \in HandlerVariants
  /\ operation_type \in BatchOperationTypes("bulk")
  /\ use_bulk_api \in BOOLEAN
  /\ h_ext \in BOOLEAN
  /\ h_records \in UNION {[1..n -> BatchRecords] : n \in 1..MaxBatch}
  /\ ValidBatchPayload(h_variant, operation_type, h_ext, h_records)
  /\ h_pc = "start"
  /\ h_i = 0
  /\ success_count = 0
  /\ failed_count = 0
  /\ results_summary = <<>>
  /\ counted = <<>>
  /\ rest_calls = <<>>
  /\ bulk_log = <<>>
  /\ h_res = NoResponse

NextBatch ==
  \/ HandleBatchRecordProcessing
  \/ \E out \in RestOutcomes : BulkOperationDone(out)
  \/ \E out \in RestOutcomes : ProcessRecord(out)

SpecBatch == InitBatch /\ [][NextBatch]_vars

\* ------------------------------------------------------ claims C1 .. C5
Finished(p) == hist[p].status \in {"ok", "err"}

\* Every caller has made exactly one call, a get_auth_details() made before
\* any token was cached, and all of them have finished.
AllColdGetsDone ==
  /\ calls = NumProcs
  /\ \A p \in Procs : hist[p].op = "get" /\ hist[p].cold /\ Finished(p)

OneCallSamePair ==
  /\ authCalls = 1
  /\ \A p \in Procs : hist[p].status = "ok" /\ hist[p].res_tok # NoToken
  /\ \A p, q \in Procs : hist[p].res_tok = hist[q].res_tok /\ hist[p].res_url = hist[q].res_url

InFlight == {p \in Procs : pc[p] = "inflight"}

\* C2: at most one authenticate() network call is in flight at any moment, and
\* the caller it belongs to holds the refresh lock.
C2_OneInFlightUnderLock ==
  /\ Cardinality(InFlight) <= 1
  /\ \A p \in InFlight : token_lock = p

C2_Witness ==
  \E p, q \in Procs :
    /\ pc[p] = "inflight" /\ hist[p].op = "h401"
    /\ pc[q] = "waiting" /\ hist[q].op = "get"

C4_BothOrNeither == (access_token = NoToken) <=> (instance_url = NoUrl)

\* C5: get_auth_details() performs authenticate() exactly when no complete
\* token state (token, instance url, expiry) is cached or the time is at or
\* past the cached expiry minus the refresh buffer; otherwise it returns the
\* cached pair without a network call.
C5_AuthenticateExactlyWhenDue ==
  \A p \in Procs :
    (hist[p].op = "get" /\ (hist[p].didAuth \/ hist[p].status = "ok")) =>
      /\ hist[p].didAuth <=> (~hist[p].chkFull \/ hist[p].chkDue)
      /\ ~hist[p].didAuth => /\ hist[p].status = "ok"
                             /\ hist[p].res_tok # NoToken
                             /\ hist[p].res_url # NoUrl

C5_Witness ==
  \E p, q \in Procs :
    /\ hist[p].op = "get" /\ hist[p].didAuth /\ hist[p].chkFull /\ hist[p].chkDue
    /\ hist[q].op = "get" /\ ~hist[q].didAuth /\ hist[q].status = "ok"

\* ------------------------------------------------------ claims C6 .. C10
IsAttempt(e) == e.req # "refresh"

\* The HTTP attempts of the log, without the refreshes between them
Attempts == SelectSeq(log, IsAttempt)

FirstAnswered401 == t_pc = "done" /\ Len(log) >= 1 /\ log[1].st = "401"

\* C6 as stated: a request answered 401 is followed by handle_unauthorized()
\* and reissued exactly once with the refreshed token; a second 401 is raised
\* to the caller; a transport call never makes more than two HTTP attempts.
C6_AsStated ==
  /\ Len(Attempts) <= 2
  /\ FirstAnswered401 =>
       /\ Len(log) >= 2 /\ log[2].req = "refresh"
       /\ Len(Attempts) = 2
       /\ Attempts[2].tok # Attempts[1].tok
       /\ Attempts[2].st = "401" => t_res = "HTTP401"

\* C6 amended: a request answered 401 is followed by handle_unauthorized();
\* when that refresh and the token lookup after it succeed, the request is
\* reissued exactly once carrying a newly issued token, and when one of them
\* raises, that exception reaches the caller and nothing is reissued; a second
\* 401 is raised to the caller; a transport call never makes more than two
\* HTTP attempts, and makes a second one only after a 401.
C6_RetryOnceAfterRefresh ==
  /\ Len(Attempts) <= 2
  /\ Len(Attempts) = 2 => Attempts[1].st = "401" /\ Attempts[2].tok # Attempts[1].tok
  /\ FirstAnswered401 =>
       /\ Len(log) >= 2 /\ log[2].req = "refresh"
       /\ IF t_res \in AuthErrors
          THEN Len(Attempts) = 1
          ELSE /\ log[2].st = "ok"
               /\ Len(Attempts) = 2
               /\ Attempts[2].st = "401" => t_res = "HTTP401"

C6_Witness ==
  /\ t_pc = "done"
  /\ Len(Attempts) = 2
  /\ Attempts[2].st = "401"
  /\ t_res = "HTTP401"

BulkSteps == {"create", "upload", "close"}

\* log[i] is the first HTTP attempt of its step
FirstOfStep(i) == \A j \in 1..(i - 1) : log[j].req # log[i].req

\* C7: during a bulk submission, a 401 on any of the three steps (job
\* creation, CSV upload, UploadComplete) is followed by a token refresh, so
\* that only that step is tried again.
C7_AsStated ==
  \A i \in 1..Len(log) :
    (log[i].req \in BulkSteps /\ log[i].st = "401" /\ FirstOfStep(i)) =>
      /\ i < Len(log) => log[i + 1].req = "refresh"
      /\ b_pc = "finished" => i < Len(log)

UploadSucceeded(e) ==
  e.req = "upload" /\ e.st \in (IF b_variant = "src" THEN {"201"} ELSE {"201", "2xx"})

FailedSubmission == b_pc = "finished" /\ b_res # "ok"

AbortAccepted == \E i \in 1..Len(log) : log[i].req = "abort" /\ log[i].st = "ok"

\* C9 as stated: whenever perform_bulk_operation fails after the job was
\* created, it requests the Aborted transition before the error reaches the
\* caller, and the job is not left Open.
C9_AsStated ==
  (FailedSubmission /\ job_id) => (abortCalls >= 1 /\ jobState # "Open")

\* C9 amended: whenever perform_bulk_operation fails after the job was
\* created and its id read, it calls update_bulk_job_state(job_id, "Aborted")
\* before the error reaches the caller; the job ends Aborted exactly when
\* Salesforce accepts one of these abort requests, and is left Open otherwise.
C9_AbortRequestedBestEffort ==
  (FailedSubmission /\ job_id) =>
    /\ abortCalls >= 1
    /\ IF AbortAccepted THEN jobState = "Aborted" ELSE jobState = "Open"

C9_Witness ==
  /\ FailedSubmission
  /\ job_id
  /\ \E i \in 1..Len(log) : log[i].req = "upload" /\ log[i].st = "401"
  /\ jobState = "Aborted"

RejectedForRecords ==
  /\ b_pc = "finished"
  /\ \/ PayloadRejected(operation, external_id_field, records)
     \/ (job_id /\ RejectedBeforeUpload(b_variant, records))

\* C11 as stated: a submission rejected because its record batch is empty or
\* serialises to an empty or header-only CSV has created no remote job and
\* made no other remote change.  Violated: perform_bulk_operation creates the
\* job before it serialises the records, so a batch of one record without
\* fields is rejected after the job exists.
C11_AsStated == RejectedForRecords => (jobState = "none" /\ log = <<>>)

\* C12: an upsert submission without an external id field fails with a
\* validation error before any job-creation request is sent.
C12_UpsertNeedsExternalId ==
  (operation = "upsert" /\ ~external_id_field)
    => /\ b_pc \in {"submit", "finished"}
       /\ log = <<>>
       /\ jobState = "none"
       /\ t_pc = "idle"
       /\ b_pc = "finished" => b_res \in {"HTTP400", "ValidationError"}

C12_Witness ==
  /\ operation = "upsert" /\ ~external_id_field
  /\ records # <<>>
  /\ b_pc = "finished"
  /\ b_res = "HTTP400"

\* A request for a job state transition (UploadComplete or Aborted)
IsTransition(e) == e.req \in {"close", "abort"}

\* C13 as stated: once the job is in a terminal state no further state
\* transition is requested for it, and within one submission the Aborted
\* transition is requested at most once.  Violated: an abort made inside the
\* try block is followed by the raise that takes the except clause, which
\* aborts the job a second time.
C13_AsStated ==
  /\ abortCalls <= 1
  /\ \A i, j \in 1..Len(log) :
       (i < j /\ log[i].req = "abort" /\ log[i].st = "ok") => ~IsTransition(log[j])

\* Entry i of the log is a job-creation or upload request that failed with a
\* connection or timeout error.
NetworkFailure(i) == log[i].req \in {"create", "upload"} /\ log[i].st = "neterr"

\* C14 as stated: a job-creation or upload request that fails with a
\* connection or timeout error is sent only once, and that error is what the
\* caller receives (the 503 communication error of the transport).  Violated:
\* the transport's network-error branch sets out to retry and fails on the
\* name asyncio, so the caller receives an unexpected-error 500.
C14_AsStated ==
  \A i \in 1..Len(log) :
    NetworkFailure(i) =>
      /\ \A j \in (i + 1)..Len(log) : log[j].req # log[i].req
      /\ (b_pc = "finished" /\ b_variant = "src") => b_res = "HTTP503"

\* C15 as stated: for an ingest job whose status is JobComplete, the call
\* fetches three result partitions: successful, failed and unprocessed
\* records.  Violated: only the successful and the failed records are
\* fetched.
C15_AsStated ==
  (b_pc = "finished" /\ b_res = "ok" /\ ~is_query_job /\ jobState = "JobComplete")
    => results_data = {"successful", "failed", "unprocessed"}

\* The create calls made for record r, in order
IsCreateOf(r, e) == e.kind = "create" /\ e.rec = r

CreatesOf(r) == LET Is(e) == IsCreateOf(r, e) IN SelectSeq(sf_log, Is)

\* C16: insert_with_retry makes at most max_attempts create calls; it goes
\* round again only after an exception that is not a storage-limit error,
\* having slept RETRY_DELAY times the number of the attempt; it returns at
\* the first success, at a response without success and at a storage-limit
\* error with no further create call; after the last attempt failed it
\* returns that attempt's error text.
C16_InsertWithRetryBounded ==
  s_op = "insert" =>
    LET n == Len(CreatesOf(1))
    IN /\ n <= max_attempts
       /\ \A i \in 1..Len(sf_log) :
            IF i % 2 = 1
            THEN /\ IsCreateOf(1, sf_log[i])
                 /\ i < Len(sf_log) => sf_log[i].out = "error"
            ELSE sf_log[i] = Sleep(RETRY_DELAY * (i \div 2))
       /\ s_pc = "call" => (Len(sf_log) = 2 * attempt_no /\ attempt_no < max_attempts)
       /\ s_pc = "done" =>
            IF n = 0
            THEN max_attempts = 0 /\ s_result = "Max retry attempts reached"
            ELSE LET last == sf_log[Len(sf_log)]
                 IN /\ IsCreateOf(1, last)
                    /\ last.out = "success" => s_result = "ok"
                    /\ last.out = "nosuccess" => s_result = "Insert failed"
                    /\ last.out = "storage" => s_result = "Storage limit exceeded"
                    /\ last.out = "error" => (n = max_attempts /\ s_result = "error")

\* The attempts are used up: every create call raised, the last error is
\* returned.
C16_Witness ==
  /\ s_op = "insert"
  /\ s_pc = "done"
  /\ max_attempts = RETRY_ATTEMPTS
  /\ Len(CreatesOf(1)) = RETRY_ATTEMPTS
  /\ s_result = "error"
  /\ sf_log[4] = Sleep(RETRY_DELAY * 2)

\* C17 as stated: update_record_by_id and delete_record_by_id both return
\* failure at once when the call fails because the entity is already
\* deleted, and make no further attempt.  Violated: delete_record_by_id has
\* no such check and retries the error like any other.
C17_AsStated ==
  s_op \in {"update", "delete"} =>
    \A i \in 1..Len(sf_log) :
      sf_log[i].out = "deleted" =>
        /\ i = Len(sf_log)
        /\ s_pc = "done"
        /\ s_result \notin {"ok", "none"}

\* check_storage_availability has returned False.
StorageCheckFailed ==
  /\ s_op = "batch"
  /\ sf_log # <<>>
  /\ ~(Len(sf_log) >= 2 /\ sf_log[2].kind = "delete" /\ sf_log[2].out = "204")

\* C18: when the storage check fails at the start of batch_insert_data, the
\* function returns no successes and one "Storage limit exceeded" failure
\* for every input record, and makes no create call for an input record.
C18_NoInsertWithoutStorage ==
  StorageCheckFailed =>
    /\ s_pc = "done"
    /\ successful_records = <<>>
    /\ failed_records = [k \in 1..num_records |->
                           FailedRecord(k, "Storage limit exceeded")]
    /\ \A i \in 1..Len(sf_log) : sf_log[i].rec = TestRecord

C18_Witness ==
  /\ StorageCheckFailed
  /\ s_pc = "done"
  /\ num_records >= 2
  /\ Len(failed_records) = num_records

\* insert_with_retry has reported a storage-limit error for record r.
StorageLimitAt(r) ==
  /\ s_op = "batch"
  /\ \E i \in 1..Len(sf_log) : IsCreateOf(r, sf_log[i]) /\ sf_log[i].out = "storage"

\* C19: when insert_with_retry reports a storage-limit error for a record
\* during batch_insert_data, that record and every record after it are
\* marked failed, no further create call is made, and the function returns.
C19_FailFastOnStorageLimit ==
  \A r \in 1..num_records :
    StorageLimitAt(r) =>
      /\ s_pc = "done"
      /\ sf_log[Len(sf_log)] = ApiCall("create", r, "storage")
      /\ \A k \in r..num_records :
           \E j \in 1..Len(failed_records) :
             failed_records[j] = FailedRecord(k, "Storage limit exceeded")
      /\ \A k \in r..num_records :
           \A j \in 1..Len(successful_records) : successful_records[j] # k

\* The second record of three meets the storage limit.
C19_Witness ==
  /\ StorageLimitAt(2)
  /\ num_records >= 3
  /\ s_pc = "done"
  /\ successful_records = <<1>>

\* C20 as stated, for the cache of shared/src/salesforce/auth.py: whenever an
\* expiry is cached it equals the cached issued_at plus the assumed validity.
\* Violated: authenticate() stores the new issued_at before it checks the
\* answer, so a refresh that fails on a missing token or instance url leaves
\* the new issued_at beside the previous expiry.
C20_AsStated ==
  (variant = "shared" /\ token_expiry # NoExpiry)
    => (issued_at # NoIssued /\ token_expiry = issued_at + AssumedValidity)

\* ------------------------------------------------------ claims C21 .. C30
\* C25 as stated: batch_insert_data returns every input record in exactly one
\* of its two lists and exactly once, and no inserted record is reported as
\* failed.  Violated: on a storage-limit error the failures are extended with
\* records[i:], i being the start of the chunk, so the failing record is
\* listed twice and the chunk's records already inserted are listed as failed.
C25_AsStated ==
  (s_op = "batch" /\ s_pc = "done") =>
    /\ Len(successful_records) + Len(failed_records) = num_records
    /\ \A i \in 1..Len(successful_records), j \in 1..Len(failed_records) :
         failed_records[j].record # successful_records[i]

\* The abort made by the except clause of perform_bulk_operation failed.
HandlerAbortFailed ==
  b_pc = "finished" /\ job_id /\ t_req = "abort" /\ t_res # "ok"

\* C26 as stated: when the abort made while handling an error fails, the
\* caller still receives the failure the except clause was entered with, in
\* both variants.  Violated: the shared variant calls the abort unguarded, so
\* the abort's own exception leaves the except clause in place of it.
C26_AsStated == HandlerAbortFailed => b_res = Surfaced(b_variant, b_err)

\* The step in which caller p's authenticate() raises
AuthenticateFails(p) ==
  pc[p] = "inflight" /\ pc'[p] # "inflight" /\ hist'[p].status = "err"

\* C27 as stated: a failing authenticate() leaves the cached access_token,
\* instance_url and expiry as they were before the call.  Violated: both
\* variants store fields of the answer before they have seen all of it.
C27_AsStated ==
  [][\A p \in Procs :
       AuthenticateFails(p) =>
         /\ access_token' = access_token
         /\ instance_url' = instance_url
         /\ token_expiry' = token_expiry]_vars

\* Caller p's authenticate() raises while callers are queued for the lock.
FailsWithWaiters(p) == AuthenticateFails(p) /\ lock_waiters # <<>>

\* C28 as stated: when authenticate() fails for the holder of the lock, the
\* lock is released and every caller waiting in get_auth_details() gets it in
\* turn and makes an authenticate attempt of its own.  Violated: in
\* salesforce_metric.py a failed handle_401 leaves the token it was called
\* for in the cache, and the waiter returns it without authenticating.
C28_AsStated ==
  [][\A p \in Procs :
       FailsWithWaiters(p) =>
         /\ token_lock' = Head(lock_waiters)
         /\ hist[Head(lock_waiters)].op = "get" =>
              NeedsAuthenticate(variant, Cache', now')]_vars

\* C28, the part that holds: the lock is only ever held by a caller that is running; when
\* authenticate() fails for its holder the first waiter is woken owning it; a
\* caller woken in get_auth_details() makes an authenticate attempt of its
\* own whenever the failed call left no usable token, which is every failure
\* but that of a handle_401 of salesforce_metric.py; and every waiting caller
\* ends its call.
C28_WaitersGetTheLock ==
  /\ [](token_lock # 0 => pc[token_lock] \in {"locked", "inflight"})
  /\ [][\A p \in Procs :
          FailsWithWaiters(p) =>
            /\ token_lock' = Head(lock_waiters)
            /\ pc'[Head(lock_waiters)] = "locked"
            /\ (hist[Head(lock_waiters)].op = "get"
                  /\ (variant = "shared" \/ hist[p].op = "get")) =>
                 NeedsAuthenticate(variant, Cache', now')]_vars
  /\ \A p \in Procs : (pc[p] = "waiting") ~> (pc[p] = "idle")

\* A caller of get_auth_details() has been woken owning the lock after the
\* only authenticate() made so far has failed.
C28_Witness ==
  \E p, q \in Procs :
    /\ pc[p] = "locked" /\ hist[p].op = "get"
    /\ hist[q].status = "err" /\ hist[q].didAuth
    /\ tokSeq = 0

\* check_storage_availability has returned: its calls open the log of
\* batch_insert_data.
StorageCheckReturned == s_op = "batch" /\ sf_log # <<>>

\* The probe record of check_storage_availability is in Salesforce: it was
\* created and no delete of it has succeeded.
ProbeExists ==
  /\ \E i \in 1..Len(sf_log) :
       /\ sf_log[i].kind = "create" /\ sf_log[i].rec = TestRecord
       /\ sf_log[i].out = "success"
  /\ ~\E i \in 1..Len(sf_log) :
       /\ sf_log[i].kind = "delete" /\ sf_log[i].rec = TestRecord
       /\ sf_log[i].out = "204"

\* C29 as stated: once check_storage_availability has returned, the probe
\* record it created no longer exists, and it has returned True only if the
\* probe was created and deleted.  Violated: when the delete raises, the
\* function returns False and the probe stays.
C29_AsStated ==
  StorageCheckReturned =>
    /\ ~ProbeExists
    /\ ~StorageCheckFailed =>
         /\ sf_log[1] = ApiCall("create", TestRecord, "success")
         /\ sf_log[2] = ApiCall("delete", TestRecord, "204")

\* authenticate has ended on settings that leave a credential empty.
EndedWithEmptyCredential == a_pc = "done" /\ settings # CredentialFields

\* C21 as stated: authenticate() fails with the configuration error, before
\* any request, when client_id, client_secret, username or password is
\* empty.  Violated: SalesforceAuth.authenticate posts the grant and fails
\* with the HTTPException of the answer.
C21_AsStated ==
  EndedWithEmptyCredential => a_res = "MissingCredentials" /\ posts = 0

\* What a CSV text can give back of a record: the chosen fields, every value
\* as the text of its cell, None and a missing field as the empty string
ReadBack(record, fieldnames) ==
  [k \in {<<fieldnames[j]>> : j \in 1..Len(fieldnames)} |->
     Str(CellText(Get(record, k[1], Str(<<>>))))]

\* C22 as stated, the values compared as the text a cell holds: for a batch
\* that is not empty, parse_csv_string_to_records gives back of
\* convert_records_to_csv_string's text one record for every record
\* written, with the chosen fields and their values, None as the empty
\* string.  Violated: a carriage return inside a value is written unquoted,
\* and reading the text back raises, drops the record or empties the cell.
C22_AsStated ==
  (c_pc = "parsed" /\ csv_records # <<>>) =>
    /\ ~parsed.error
    /\ parsed.records =
         [i \in 1..Len(csv_records) |->
            ReadBack(csv_records[i], Fieldnames(csv_records, field_order))]

\* The line end of the text that convert_records_to_csv_string writes
WriterNewlines == {"LF"}

\* C23: with a field_order given, the first row of the text is field_order,
\* whatever the order of the keys in the records; every record makes one
\* row with one cell for every name of field_order, empty when the record
\* lacks the field, and no cell for a field that field_order leaves out.
C23_HeaderIsFieldOrder ==
  (c_pc # "start" /\ csv_records # <<>> /\ field_order # <<>>) =>
    LET text == Rows(csv_string, WriterNewlines)
    IN /\ ~text.error
       /\ Len(text.rows) = Len(csv_records) + 1
       /\ text.rows[1] = [j \in 1..Len(field_order) |-> <<field_order[j]>>]
       /\ \A i \in 1..Len(csv_records) :
            /\ Len(text.rows[i + 1]) = Len(field_order)
            /\ \A j \in 1..Len(field_order) :
                 text.rows[i + 1][j] =
                   IF Has(csv_records[i], field_order[j])
                   THEN CellText(Get(csv_records[i], field_order[j], NoneValue))
                   ELSE <<>>

\* A text has been written for field_order [Age] from a record that holds
\* Name before Age and a record that holds only Name.
C23_Witness ==
  /\ c_pc = "converted"
  /\ field_order = <<"Age">>
  /\ Len(csv_records) = 2
  /\ Keys(csv_records[1]) = <<"Name", "Age">>
  /\ csv_records[1][2].value = Int1
  /\ Keys(csv_records[2]) = <<"Name">>
  /\ csv_string = <<"Age", "LF", "1", "LF", "QUOTE", "QUOTE", "LF">>

\* The batch handler has answered a request made with use_bulk_api, and no
\* perform_bulk_operation call has failed.
BulkBatchAnswered ==
  /\ h_pc = "done"
  /\ use_bulk_api
  /\ \A i \in 1..Len(bulk_log) : bulk_log[i] = "ok"

\* C24 as stated: a batch request with use_bulk_api and any operation_type
\* of the batch payload submits exactly one bulk job, answers success with
\* the job's id and calls no single-record operation.  Violated: with
\* "create" the bulk payload is rejected and the answer is a 500.
C24_AsStated ==
  BulkBatchAnswered =>
    /\ Len(bulk_log) = 1
    /\ h_res = [status |-> "200", success |-> TRUE, job_id |-> TRUE]
    /\ rest_calls = <<>>

\* The operation asked for record i was called and succeeded.
SentAndSucceeded(i) ==
  \E n \in 1..Len(rest_calls) :
    /\ rest_calls[n].rec = i
    /\ rest_calls[n].op = operation_type
    /\ rest_calls[n].out = "ok"

\* C30 as stated: on the path without the Bulk API a record is counted
\* successful only if its operation was called and succeeded, the two
\* counters add up to the number of records, and the response says success
\* exactly when the operation of every record succeeded.  Violated: the
\* handler of bulk.py counts a record of any operation but create
\* successful without calling anything.
C30_AsStated ==
  (h_pc = "done" /\ ~use_bulk_api) =>
    /\ \A i \in 1..Len(h_records) : counted[i] = "success" => SentAndSucceeded(i)
    /\ success_count + failed_count = Len(h_records)
    /\ h_res.success <=> \A i \in 1..Len(h_records) : SentAndSucceeded(i)
====
